---- MODULE Spec2Model ----
(***************************************************************************)
(* Verification model of JTrading-News-Manager: the ForexFactory scraper   *)
(* (src/src/scraper.py), the CSV record sink (src/src/csv_exporter.py),    *)
(* the symbol mapper, the data cleaner and the pipeline (src/src/main.py). *)
(*                                                                         *)
(* Several specifications share this module:                               *)
(*   SpecSplit   - the loop of ForexFactoryScraper._split_into_ranges      *)
(*   SpecSink    - CSVExporter.append_events called with batches           *)
(*   SpecExtract - the extraction of one day page by _scrape_day           *)
(*   SpecRange   - ForexFactoryScraper.scrape_date_range                   *)
(*   SpecNav     - ForexFactoryScraper._navigate_to_page                   *)
(*   SpecPipeline - run_pipeline in daily and in range mode                *)
(*   SpecMap     - SymbolMapper.map_events_to_pairs                        *)
(*   SpecSched   - the job of NewsScheduler and the termination signals    *)
(*   SpecClean   - the methods of EconomicDataCleaner                      *)
(*   SpecSplitFair - SpecSplit with a loop that keeps running              *)
(*   SpecProbe   - ForexFactoryScraper._is_driver_responsive               *)
(* Every specification leaves the variables of the others at their idle    *)
(* values.                                                                 *)
(***************************************************************************)
EXTENDS Integers, Sequences, FiniteSets, TLC

(***************************************************************************)
(* Time.  A datetime is an integer number of ticks; a day has TicksPerDay  *)
(* ticks, so a datetime has a calendar date and a time of day, as Python's *)
(* datetime has.  timedelta(days=n) is n * TicksPerDay ticks.              *)
(***************************************************************************)
TicksPerDay == 2

timedelta(days) == days * TicksPerDay

DateOf(dt) == dt \div TicksPerDay

TimeOfDay(dt) == dt % TicksPerDay

\* the "approximately 30 days per month" of _split_into_ranges
DaysPerMonth == 30

(***************************************************************************)
(* Text.  Where the code inspects the characters of a text (lower, title,  *)
(* strip, substring tests, regular expressions) the text is a sequence of  *)
(* one-character strings.                                                  *)
(***************************************************************************)
UpperCase ==
    <<"A", "B", "C", "D", "E", "F", "G", "H", "I", "J", "K", "L", "M", "N",
     "O", "P", "Q", "R", "S", "T", "U", "V", "W", "X", "Y", "Z">>

LowerCase ==
    <<"a", "b", "c", "d", "e", "f", "g", "h", "i", "j", "k", "l", "m", "n",
     "o", "p", "q", "r", "s", "t", "u", "v", "w", "x", "y", "z">>

Digits == <<"0", "1", "2", "3", "4", "5", "6", "7", "8", "9">>

Range(sq) == {sq[k] : k \in 1..Len(sq)}

IsUpper(c) == c \in Range(UpperCase)

IsLower(c) == c \in Range(LowerCase)

IsCased(c) == IsUpper(c) \/ IsLower(c)

IsDigit(c) == c \in Range(Digits)

IndexIn(sq, c) == CHOOSE k \in 1..Len(sq) : sq[k] = c

LowerChar(c) == IF IsUpper(c) THEN LowerCase[IndexIn(UpperCase, c)] ELSE c

UpperChar(c) == IF IsLower(c) THEN UpperCase[IndexIn(LowerCase, c)] ELSE c

\* str.lower()
Lower(s) == [k \in 1..Len(s) |-> LowerChar(s[k])]

\* str.upper()
Upper(s) == [k \in 1..Len(s) |-> UpperChar(s[k])]

\* str.title(): a cased character is upper case when the character before
\* it is not cased, lower case otherwise
Title(s) ==
    [k \in 1..Len(s) |->
        IF k > 1 /\ IsCased(s[k - 1]) THEN LowerChar(s[k]) ELSE UpperChar(s[k])]

\* sub in s
Contains(s, sub) ==
    \E k \in 1..(Len(s) - Len(sub) + 1) : SubSeq(s, k, k + Len(sub) - 1) = sub

ContainsAny(s, subs) == \E sub \in subs : Contains(s, sub)

\* str.strip(), as in get_text(strip=True)
RECURSIVE Strip(_)
Strip(s) ==
    IF s = <<>> THEN s
    ELSE IF s[1] = " " THEN Strip(Tail(s))
    ELSE IF s[Len(s)] = " " THEN Strip(SubSeq(s, 1, Len(s) - 1))
    ELSE s


(***************************************************************************)
(* Bounds of the model.                                                    *)
(***************************************************************************)
MaxStartTick == 3
MaxEndDay == 62
MaxMonths == 2
MaxRanges == 4

(***************************************************************************)
(* _split_into_ranges (scraper.py 373-399)                                 *)
(***************************************************************************)
VARIABLES sp_pc, start_date, end_date, max_months, current_start, sp_ranges

splitVars == <<sp_pc, start_date, end_date, max_months, current_start, sp_ranges>>

(***************************************************************************)
(* The record sink: the CSV file of CSVExporter (csv_exporter.py)          *)
(*   csv_file    the file at output_path: NoFile, EmptyFile (zero bytes)   *)
(*               or DataFile(rows), a header line and the data rows        *)
(*   sink_calls  the calls of append_events made so far, oldest first:     *)
(*               the batch, the value returned and the file before the     *)
(*               call                                                      *)
(***************************************************************************)
VARIABLES csv_file, sink_calls

sinkVars == <<csv_file, sink_calls>>


\* line 381 and 384-385: the end of the window that starts at cs
WindowEnd(cs, ed, mm) ==
    LET ce == cs + timedelta((mm * DaysPerMonth) - 1)
    IN  IF ce > ed THEN ed ELSE ce

\* line 390: the next window starts the day after the window's end
NextStart(ce) == ce + timedelta(1)

SplitIdle ==
    /\ sp_pc = "idle"
    /\ start_date = 0
    /\ end_date = 0
    /\ max_months = 1
    /\ current_start = 0
    /\ sp_ranges = <<>>

\* lines 375-376: ranges = [], current_start = start_date
SplitStart ==
    /\ start_date \in 0..MaxStartTick
    /\ end_date \in 0..(timedelta(MaxEndDay) + TicksPerDay - 1)
    /\ max_months \in 0..MaxMonths
    /\ current_start = start_date
    /\ sp_ranges = <<>>
    /\ sp_pc = "while"

\* line 378, condition false: leave the loop
SplitExit ==
    /\ sp_pc = "while"
    /\ ~(current_start <= end_date)
    /\ sp_pc' = "done"
    /\ UNCHANGED <<start_date, end_date, max_months, current_start, sp_ranges>>

\* lines 378-394: one iteration of the while loop
SplitIterate ==
    /\ sp_pc = "while"
    /\ current_start <= end_date
    /\ Len(sp_ranges) < MaxRanges
    /\ LET current_end == WindowEnd(current_start, end_date, max_months)
       IN  /\ sp_ranges' = Append(sp_ranges, <<current_start, current_end>>)
           /\ current_start' = NextStart(current_end)
           /\ sp_pc' = IF NextStart(current_end) > end_date THEN "done" ELSE "while"
    /\ UNCHANGED <<start_date, end_date, max_months>>

(***************************************************************************)
(* CSVExporter (csv_exporter.py).                                          *)
(* An event is a record [DateTime, Event, Currency, Actual]; Actual stands *)
(* for the value columns (Country, Impact, Actual, Forecast, Previous,     *)
(* AffectedPairs), which export_events carries along in the same way.      *)
(* A data frame is a sequence of rows; a cell of a frame that pandas read  *)
(* as missing is NaN.  A text is a tuple of one-character strings, as in   *)
(* the extractor, whose records run_pipeline hands to append_events.       *)
(***************************************************************************)
NoFile == [state |-> "absent", rows |-> <<>>]

EmptyFile == [state |-> "zero bytes", rows |-> <<>>]

DataFile(rows) == [state |-> "data", rows |-> rows]

NaN == <<"<NaN>">>

MaxSinkTick == 1
MaxBatch == 2
MaxAppends == 2

EventNames == {<<"C", "P", "I">>}

Currencies == {<<"U", "S", "D">>, <<>>}

Actuals == {<<"1">>, <<"2">>}

EventPool ==
    [DateTime : 0..MaxSinkTick, Event : EventNames, Currency : Currencies,
     Actual : Actuals]

SeqsUpTo(S, n) == UNION {[1..k -> S] : k \in 0..n}

\* line 64: pd.to_datetime(...).dt.strftime('%Y-%m-%d %H:%M:%S'); the text
\* is the date followed by the time of day, and texts compare as they sort
FormatDateTime(dt) == <<DateOf(dt), TimeOfDay(dt)>>

TextLess(a, b) == a[1] < b[1] \/ (a[1] = b[1] /\ a[2] < b[2])

\* lines 45-64: the frame of a batch
ToFrame(events) ==
    [k \in 1..Len(events) |->
        [DateTime |-> FormatDateTime(events[k].DateTime),
         Event |-> events[k].Event,
         Currency |-> events[k].Currency,
         Actual |-> events[k].Actual]]

\* pd.read_csv (line 71): an empty field and the text N/A are read as NaN
ReadField(text) ==
    IF text \in {<<>>, <<"N", "/", "A">>} THEN NaN ELSE text

ReadCsv(rows) ==
    [k \in 1..Len(rows) |->
        [DateTime |-> rows[k].DateTime,
         Event |-> ReadField(rows[k].Event),
         Currency |-> ReadField(rows[k].Currency),
         Actual |-> ReadField(rows[k].Actual)]]

\* df.to_csv (line 78): NaN is written as an empty field
WriteField(v) == IF v = NaN THEN <<>> ELSE v

ToCsv(df) ==
    [k \in 1..Len(df) |->
        [DateTime |-> df[k].DateTime,
         Event |-> WriteField(df[k].Event),
         Currency |-> WriteField(df[k].Currency),
         Actual |-> WriteField(df[k].Actual)]]

Reverse(sq) == [k \in 1..Len(sq) |-> sq[Len(sq) + 1 - k]]

\* insertion of row r into the ascending frame df after the rows that are
\* not greater (the insertion sort numpy uses for short arrays)
RECURSIVE InsertSorted(_, _)
InsertSorted(df, r) ==
    IF df = <<>> THEN <<r>>
    ELSE IF TextLess(r.DateTime, df[Len(df)].DateTime)
         THEN Append(InsertSorted(SubSeq(df, 1, Len(df) - 1), r), df[Len(df)])
         ELSE Append(df, r)

RECURSIVE ArgSort(_)
ArgSort(df) ==
    IF df = <<>> THEN <<>>
    ELSE InsertSorted(ArgSort(SubSeq(df, 1, Len(df) - 1)), df[Len(df)])

\* df.sort_values('DateTime', ascending=...) (lines 155, 164): pandas sorts
\* descending by reversing, sorting ascending and reversing again
SortValues(df, ascending) ==
    IF ascending THEN ArgSort(df) ELSE Reverse(ArgSort(Reverse(df)))

KeyOf(r) == <<r.DateTime, r.Event, r.Currency>>

\* df.drop_duplicates(subset=[DateTime, Event, Currency], keep='first')
\* (lines 158-161)
DropDuplicates(df) ==
    LET keep == {k \in 1..Len(df) :
                    \A j \in 1..(k - 1) : KeyOf(df[j]) # KeyOf(df[k])}
        pick(k) == CHOOSE n \in keep : Cardinality({m \in keep : m <= n}) = k
    IN  [k \in 1..Cardinality(keep) |-> df[pick(k)]]

\* _remove_duplicates (lines 141-166)
RemoveDuplicates(df) ==
    IF df = <<>> THEN df
    ELSE SortValues(DropDuplicates(SortValues(df, FALSE)), TRUE)

\* export_events without the test of lines 38-40
ExportEventsUnchecked(file, events, mode) ==
    IF mode = "a" /\ file = EmptyFile
    THEN [ok |-> FALSE, file |-> file]
    ELSE IF mode = "a" /\ file # NoFile
    THEN [ok |-> TRUE,
          file |-> DataFile(ToCsv(RemoveDuplicates(
                        ReadCsv(file.rows) \o ToFrame(events))))]
    ELSE [ok |-> TRUE, file |-> DataFile(ToCsv(ToFrame(events)))]

\* export_events (lines 28-85): the value returned and the file afterwards
ExportEvents(file, events, mode) ==
    IF events = <<>>
    THEN [ok |-> FALSE, file |-> file]
    ELSE IF mode = "a" /\ file = EmptyFile
    THEN \* read_csv raises EmptyDataError, caught at line 83
         [ok |-> FALSE, file |-> file]
    ELSE IF mode = "a" /\ file # NoFile
    THEN [ok |-> TRUE,
          file |-> DataFile(ToCsv(RemoveDuplicates(
                        ReadCsv(file.rows) \o ToFrame(events))))]
    ELSE [ok |-> TRUE, file |-> DataFile(ToCsv(ToFrame(events)))]

\* append_events (lines 168-178)
AppendEvents(file, events) == ExportEvents(file, events, "a")

SinkIdle ==
    /\ csv_file = NoFile
    /\ sink_calls = <<>>

SinkStart ==
    /\ csv_file \in {NoFile, EmptyFile, DataFile(<<>>)}
    /\ sink_calls = <<>>

\* a caller hands a batch to append_events
CallAppendEvents ==
    /\ Len(sink_calls) < MaxAppends
    /\ \E events \in SeqsUpTo(EventPool, MaxBatch) :
          LET res == AppendEvents(csv_file, events)
          IN  /\ csv_file' = res.file
              /\ sink_calls' = Append(sink_calls,
                    [events |-> events, ok |-> res.ok, before |-> csv_file])

(***************************************************************************)
(* Impact conversion (scraper.py 1046-1055, 1240-1334, 1731-1842)          *)
(***************************************************************************)
High == <<"H", "i", "g", "h">>

Medium == <<"M", "e", "d", "i", "u", "m">>

Low == <<"L", "o", "w">>

ImpactLevels == {High, Medium, Low}

IconFfImpact ==
    <<"I", "c", "o", "n", "-", "-", "F", "f", "-", "I", "m", "p", "a", "c",
     "t">>

CssRed ==
    { <<"i", "c", "o", "n", "-", "-", "f", "f", "-", "i", "m", "p", "a",
        "c", "t", "-", "r", "e", "d">>,
      <<"f", "f", "-", "i", "m", "p", "a", "c", "t", "-", "r", "e", "d">> }

CssOra ==
    { <<"i", "c", "o", "n", "-", "-", "f", "f", "-", "i", "m", "p", "a",
        "c", "t", "-", "o", "r", "a">>,
      <<"f", "f", "-", "i", "m", "p", "a", "c", "t", "-", "o", "r", "a">> }

CssYel ==
    { <<"i", "c", "o", "n", "-", "-", "f", "f", "-", "i", "m", "p", "a",
        "c", "t", "-", "y", "e", "l">>,
      <<"f", "f", "-", "i", "m", "p", "a", "c", "t", "-", "y", "e", "l">> }

CssGra ==
    { <<"i", "c", "o", "n", "-", "-", "f", "f", "-", "i", "m", "p", "a",
        "c", "t", "-", "g", "r", "a">>,
      <<"f", "f", "-", "i", "m", "p", "a", "c", "t", "-", "g", "r", "a">> }

\* _convert_css_impact_to_readable (lines 1316-1334)
ConvertCssImpactToReadable(css_impact) ==
    LET css_impact_lower == Lower(css_impact)
    IN  IF css_impact_lower \in {Lower(High), Lower(Medium), Lower(Low)}
        THEN Title(css_impact)
        ELSE IF ContainsAny(css_impact_lower, CssRed) THEN High
        ELSE IF ContainsAny(css_impact_lower, CssOra) THEN Medium
        ELSE IF ContainsAny(css_impact_lower, CssYel) THEN Low
        ELSE IF ContainsAny(css_impact_lower, CssGra) THEN Low
        ELSE Low

\* _convert_impact_in_events (lines 1046-1055), for one event
ConvertImpactInEvent(event) ==
    IF Contains(event.Impact, IconFfImpact)
    THEN [event EXCEPT !.Impact = ConvertCssImpactToReadable(event.Impact)]
    ELSE event

(***************************************************************************)
(* Values of the embedded state (JSON): a text, a number or null.          *)
(***************************************************************************)
StrVal(s) == [t |-> "str", s |-> s, n |-> 0]

IntVal(n) == [t |-> "int", s |-> <<>>, n |-> n]

NoneVal == [t |-> "none", s |-> <<>>, n |-> 0]

NoneText == <<"N", "o", "n", "e">>

\* str(value), for the numbers 0..9
PyStr(val) ==
    IF val.t = "str" THEN val.s
    ELSE IF val.t = "int" THEN <<Digits[val.n + 1]>>
    ELSE NoneText

\* int(value): ok is FALSE where Python raises ValueError or TypeError
PyInt(val) ==
    IF val.t = "int" THEN [ok |-> TRUE, n |-> val.n]
    ELSE IF val.t = "str" /\ Len(val.s) = 1 /\ IsDigit(val.s[1])
    THEN [ok |-> TRUE, n |-> IndexIn(Digits, val.s[1]) - 1]
    ELSE [ok |-> FALSE, n |-> 0]

\* truth value of a JSON value
Truthy(val) ==
    IF val.t = "str" THEN val.s # <<>>
    ELSE IF val.t = "int" THEN val.n # 0
    ELSE FALSE

\* the fields of lists fields (in order) that event_data has
Present(fields, event_data) ==
    SelectSeq(fields, LAMBDA f : f \in DOMAIN event_data)

\* line 1254
impact_fields ==
    <<"impactLevel", "impact_level", "importance", "priority",
      "significance", "impactClass", "impact_class">>

\* line 1266
css_fields ==
    <<"className", "class_name", "cssClass", "css_class", "iconClass",
      "icon_class">>

\* line 1282
numeric_impact_indicators ==
    <<"impactNum", "impact_num", "level", "strength", "impactLevel">>

\* line 1297
string_impact_indicators ==
    <<"impactString", "impact_string", "impactText", "impact_text">>

TxtHigh == <<"h", "i", "g", "h">>

TxtRed == <<"r", "e", "d">>

TxtMedium == <<"m", "e", "d", "i", "u", "m">>

TxtOrange == <<"o", "r", "a", "n", "g", "e">>

TxtLow == <<"l", "o", "w">>

TxtYellow == <<"y", "e", "l", "l", "o", "w">>

\* lines 1247-1251 and 1259-1263: a directly stored impact value
DirectImpact(val) ==
    IF Contains(PyStr(val), IconFfImpact)
    THEN ConvertCssImpactToReadable(PyStr(val))
    ELSE Title(PyStr(val))

\* lines 1269-1278: the level a CSS field names, <<>> when it names none
CssFieldImpact(val) ==
    LET css_value == Lower(PyStr(val))
    IN  IF ContainsAny(css_value, CssRed) THEN High
        ELSE IF ContainsAny(css_value, CssOra) THEN Medium
        ELSE IF ContainsAny(css_value, CssYel) THEN Low
        ELSE <<>>

\* lines 1286-1292
NumericImpact(n) ==
    IF n >= 3 THEN High ELSE IF n >= 2 THEN Medium ELSE Low

\* lines 1300-1306: the level a text field names, <<>> when it names none
StringFieldImpact(val) ==
    LET impact_str == Lower(PyStr(val))
    IN  IF Contains(impact_str, TxtHigh) \/ Contains(impact_str, TxtRed)
        THEN High
        ELSE IF Contains(impact_str, TxtMedium) \/ Contains(impact_str, TxtOrange)
        THEN Medium
        ELSE IF Contains(impact_str, TxtLow) \/ Contains(impact_str, TxtYellow)
        THEN Low
        ELSE <<>>

\* _extract_impact_from_js_data (lines 1240-1314)
ExtractImpactFromJsData(event_data) ==
    LET direct == Present(impact_fields, event_data)
        css == SelectSeq(Present(css_fields, event_data),
                  LAMBDA f : CssFieldImpact(event_data[f]) # <<>>)
        num == SelectSeq(Present(numeric_impact_indicators, event_data),
                  LAMBDA f : PyInt(event_data[f]).ok)
        str == SelectSeq(Present(string_impact_indicators, event_data),
                  LAMBDA f : StringFieldImpact(event_data[f]) # <<>>)
    IN  IF "impact" \in DOMAIN event_data
        THEN DirectImpact(event_data["impact"])
        ELSE IF direct # <<>> THEN DirectImpact(event_data[direct[1]])
        ELSE IF css # <<>> THEN CssFieldImpact(event_data[css[1]])
        ELSE IF num # <<>> THEN NumericImpact(PyInt(event_data[num[1]]).n)
        ELSE IF str # <<>> THEN StringFieldImpact(event_data[str[1]])
        ELSE Low


(***************************************************************************)
(* The embedded-state path: _parse_js_event_data (scraper.py 1175-1238)    *)
(* An event is a record [DateTime, Event, Country, Impact, Currency,       *)
(* Actual, Forecast, Previous]; Event and Currency hold the JSON value the *)
(* code copies, the other texts are character sequences.  The Notice and   *)
(* Has... flags, which nothing reads, are left out.                        *)
(***************************************************************************)
NA == <<"N", "/", "A">>

Unknown == <<"U", "n", "k", "n", "o", "w", "n">>

NoEvent == [dropped |-> TRUE]

Emitted(e) == "dropped" \notin DOMAIN e

\* replace(hour=12, minute=0) and replace(hour=0, minute=0)
Noon(dt) == timedelta(DateOf(dt)) + (TicksPerDay \div 2)

Midnight(dt) == timedelta(DateOf(dt))

\* event_data.get(key, default)
Get(event_data, key, default) ==
    IF key \in DOMAIN event_data THEN event_data[key] ELSE default

\* a or b
Or(a, b) == IF Truthy(a) THEN a ELSE b

\* lines 1338-1358
country_code_mapping ==
    { <<<<"U", "S">>, <<"U", "n", "i", "t", "e", "d", " ", "S", "t", "a", "t", "e", "s">>>>,
      <<<<"E", "U", "R">>, <<"E", "u", "r", "o", "z", "o", "n", "e">>>>,
      <<<<"G", "B">>, <<"U", "n", "i", "t", "e", "d", " ", "K", "i", "n", "g", "d", "o", "m">>>>,
      <<<<"U", "K">>, <<"U", "n", "i", "t", "e", "d", " ", "K", "i", "n", "g", "d", "o", "m">>>>,
      <<<<"J", "P">>, <<"J", "a", "p", "a", "n">>>>,
      <<<<"C", "H">>, <<"S", "w", "i", "t", "z", "e", "r", "l", "a", "n", "d">>>>,
      <<<<"A", "U">>, <<"A", "u", "s", "t", "r", "a", "l", "i", "a">>>>,
      <<<<"N", "Z">>, <<"N", "e", "w", " ", "Z", "e", "a", "l", "a", "n", "d">>>>,
      <<<<"C", "A">>, <<"C", "a", "n", "a", "d", "a">>>>,
      <<<<"C", "N">>, <<"C", "h", "i", "n", "a">>>>,
      <<<<"F", "R">>, <<"F", "r", "a", "n", "c", "e">>>>,
      <<<<"D", "E">>, <<"G", "e", "r", "m", "a", "n", "y">>>>,
      <<<<"I", "T">>, <<"I", "t", "a", "l", "y">>>>,
      <<<<"E", "S">>, <<"S", "p", "a", "i", "n">>>>,
      <<<<"R", "U">>, <<"R", "u", "s", "s", "i", "a">>>>,
      <<<<"B", "R">>, <<"B", "r", "a", "z", "i", "l">>>>,
      <<<<"I", "N">>, <<"I", "n", "d", "i", "a">>>>,
      <<<<"M", "X">>, <<"M", "e", "x", "i", "c", "o">>>>,
      <<<<"Z", "A">>, <<"S", "o", "u", "t", "h", " ", "A", "f", "r", "i", "c", "a">>>> }

\* dict.get(key, default) on a table of <<key, value>> pairs
Lookup(table, key, default) ==
    IF \E p \in table : p[1] = key
    THEN (CHOOSE p \in table : p[1] = key)[2]
    ELSE default

\* _get_country_name_from_code (lines 1336-1360), for a text code
GetCountryNameFromCode(code) == Lookup(country_code_mapping, Upper(code), Unknown)

\* _parse_js_event_data (lines 1175-1238)
\* _parse_js_event_data without the check of line 1217
ParseJsEventDataUnnamed(event_data, target_date) ==
    LET dateline == Get(event_data, "dateline", NoneVal)
        event_name == Get(event_data, "name", StrVal(<<>>))
        prefixed_name == Get(event_data, "prefixedName", event_name)
        trimmed_name == Get(event_data, "trimmedPrefixedName", prefixed_name)
        solo_title == Get(event_data, "soloTitle", trimmed_name)
        country_code == Get(event_data, "country", StrVal(<<>>))
    IN  IF country_code.t # "str"
        THEN NoEvent
        ELSE [DateTime |-> IF Truthy(dateline) /\ dateline.t = "int"
                           THEN dateline.n
                           ELSE Noon(target_date),
              Event |-> Or(solo_title, Or(trimmed_name, Or(prefixed_name, event_name))),
              Country |-> GetCountryNameFromCode(country_code.s),
              Impact |-> ExtractImpactFromJsData(event_data),
              Currency |-> Get(event_data, "currency", StrVal(<<>>)),
              Actual |-> NA,
              Forecast |-> NA,
              Previous |-> NA]

ParseJsEventData(event_data, target_date) ==
    LET dateline == Get(event_data, "dateline", NoneVal)
        event_time == IF Truthy(dateline) /\ dateline.t = "int"
                      THEN dateline.n
                      ELSE Noon(target_date)
        event_name == Get(event_data, "name", StrVal(<<>>))
        prefixed_name == Get(event_data, "prefixedName", event_name)
        trimmed_name == Get(event_data, "trimmedPrefixedName", prefixed_name)
        solo_title == Get(event_data, "soloTitle", trimmed_name)
        currency == Get(event_data, "currency", StrVal(<<>>))
        country_code == Get(event_data, "country", StrVal(<<>>))
        impact == ExtractImpactFromJsData(event_data)
        final_event_name ==
            Or(solo_title, Or(trimmed_name, Or(prefixed_name, event_name)))
    IN  IF ~Truthy(final_event_name)
        THEN NoEvent
        ELSE IF country_code.t # "str"
        THEN \* country_code.upper() raises, caught at line 1236
             NoEvent
        ELSE [DateTime |-> event_time,
              Event |-> final_event_name,
              Country |-> GetCountryNameFromCode(country_code.s),
              Impact |-> impact,
              Currency |-> currency,
              Actual |-> NA,
              Forecast |-> NA,
              Previous |-> NA]


(***************************************************************************)
(* The rendered table.  A cell (td) is a record                            *)
(*   cls      its class attribute                                          *)
(*   text     get_text(strip=True)                                         *)
(*   haslink, link   whether it holds an <a>, and that link's text         *)
(*   icon     the class attribute of the span it holds (empty: no span)    *)
(*   style    its style attribute                                          *)
(* and a row (tr) is a sequence of cells.  Cells carry no data-*           *)
(* attributes.                                                             *)
(***************************************************************************)
Cell(cls, text, icon) ==
    [cls |-> cls, text |-> text, haslink |-> FALSE, link |-> <<>>,
     icon |-> icon, style |-> <<>>]

LinkCell(cls, text) ==
    [cls |-> cls, text |-> text, haslink |-> TRUE, link |-> text,
     icon |-> <<>>, style |-> <<>>]

NoCell == [missing |-> TRUE]

IsCell(c) == "missing" \notin DOMAIN c

TdOpen == <<"<", "t", "d", " ", "c", "l", "a", "s", "s", "=", "\"">>

StyleAttr == <<"\"", " ", "s", "t", "y", "l", "e", "=", "\"">>

SpanOpen ==
    <<"\"", ">", "<", "s", "p", "a", "n", " ", "c", "l", "a", "s", "s",
     "=", "\"">>

SpanClose == <<"\"", ">", "<", "/", "s", "p", "a", "n", ">">>

TdClose == <<"<", "/", "t", "d", ">">>

\* str(cell): the markup of the cell
Markup(cell) ==
    TdOpen \o cell.cls \o StyleAttr \o cell.style \o SpanOpen \o cell.icon
        \o SpanClose \o cell.text \o TdClose

\* lines 1755-1760
high_indicators ==
    { <<"i", "m", "p", "a", "c", "t", "-", "h", "i", "g", "h">>,
      <<"h", "i", "g", "h", "-", "i", "m", "p", "a", "c", "t">>,
      <<"c", "a", "l", "_", "h", "i", "g", "h">>,
      <<"i", "c", "o", "n", "-", "h", "i", "g", "h">>,
      <<"r", "e", "d">>,
      <<"c", "o", "l", "o", "r", "-", "r", "e", "d">>,
      <<"b", "g", "-", "r", "e", "d">>,
      <<"i", "m", "p", "a", "c", "t", "_", "h", "i", "g", "h">>,
      <<"f", "f", "-", "i", "m", "p", "a", "c", "t", "-", "h", "i", "g",
        "h">>,
      <<"i", "m", "p", "a", "c", "t", "l", "e", "v", "e", "l", "-", "h",
        "i", "g", "h">>,
      <<"i", "m", "p", "a", "c", "t", "_", "l", "e", "v", "e", "l", "_",
        "h", "i", "g", "h">>,
      <<"p", "r", "i", "o", "r", "i", "t", "y", "-", "h", "i", "g", "h">>,
      <<"i", "c", "o", "n", "-", "-", "f", "f", "-", "i", "m", "p", "a",
        "c", "t", "-", "r", "e", "d">>,
      <<"f", "f", "-", "i", "m", "p", "a", "c", "t", "-", "r", "e", "d">> }

\* lines 1761-1767
medium_indicators ==
    { <<"i", "m", "p", "a", "c", "t", "-", "m", "e", "d", "i", "u", "m">>,
      <<"m", "e", "d", "i", "u", "m", "-", "i", "m", "p", "a", "c", "t">>,
      <<"c", "a", "l", "_", "m", "e", "d", "i", "u", "m">>,
      <<"i", "c", "o", "n", "-", "m", "e", "d", "i", "u", "m">>,
      <<"o", "r", "a", "n", "g", "e">>,
      <<"c", "o", "l", "o", "r", "-", "o", "r", "a", "n", "g", "e">>,
      <<"b", "g", "-", "o", "r", "a", "n", "g", "e">>,
      <<"i", "m", "p", "a", "c", "t", "_", "m", "e", "d", "i", "u", "m">>,
      <<"y", "e", "l", "l", "o", "w">>,
      <<"f", "f", "-", "i", "m", "p", "a", "c", "t", "-", "m", "e", "d",
        "i", "u", "m">>,
      <<"i", "m", "p", "a", "c", "t", "l", "e", "v", "e", "l", "-", "m",
        "e", "d", "i", "u", "m">>,
      <<"i", "m", "p", "a", "c", "t", "_", "l", "e", "v", "e", "l", "_",
        "m", "e", "d", "i", "u", "m">>,
      <<"p", "r", "i", "o", "r", "i", "t", "y", "-", "m", "e", "d", "i",
        "u", "m">>,
      <<"a", "m", "b", "e", "r">>,
      <<"i", "c", "o", "n", "-", "-", "f", "f", "-", "i", "m", "p", "a",
        "c", "t", "-", "o", "r", "a">>,
      <<"f", "f", "-", "i", "m", "p", "a", "c", "t", "-", "o", "r", "a">> }

\* lines 1768-1774
low_indicators ==
    { <<"i", "m", "p", "a", "c", "t", "-", "l", "o", "w">>,
      <<"l", "o", "w", "-", "i", "m", "p", "a", "c", "t">>,
      <<"c", "a", "l", "_", "l", "o", "w">>,
      <<"i", "c", "o", "n", "-", "l", "o", "w">>,
      <<"y", "e", "l", "l", "o", "w">>,
      <<"c", "o", "l", "o", "r", "-", "y", "e", "l", "l", "o", "w">>,
      <<"b", "g", "-", "y", "e", "l", "l", "o", "w">>,
      <<"i", "m", "p", "a", "c", "t", "_", "l", "o", "w">>,
      <<"f", "f", "-", "i", "m", "p", "a", "c", "t", "-", "l", "o", "w">>,
      <<"i", "m", "p", "a", "c", "t", "l", "e", "v", "e", "l", "-", "l",
        "o", "w">>,
      <<"i", "m", "p", "a", "c", "t", "_", "l", "e", "v", "e", "l", "_",
        "l", "o", "w">>,
      <<"p", "r", "i", "o", "r", "i", "t", "y", "-", "l", "o", "w">>,
      <<"i", "c", "o", "n", "-", "-", "f", "f", "-", "i", "m", "p", "a",
        "c", "t", "-", "y", "e", "l">>,
      <<"f", "f", "-", "i", "m", "p", "a", "c", "t", "-", "y", "e", "l">> }

HighTexts ==
    { <<"h", "i", "g", "h">>,
      <<"r", "e", "d">>,
      <<"h", "i", "g", "h", " ", "i", "m", "p", "a", "c", "t", " ", "e",
        "x", "p", "e", "c", "t", "e", "d">> }

MediumTexts ==
    { <<"m", "e", "d", "i", "u", "m">>,
      <<"o", "r", "a", "n", "g", "e">>,
      <<"m", "e", "d", "i", "u", "m", " ", "i", "m", "p", "a", "c", "t",
        " ", "e", "x", "p", "e", "c", "t", "e", "d">> }

LowTexts ==
    { <<"l", "o", "w">>,
      <<"y", "e", "l", "l", "o", "w">>,
      <<"l", "o", "w", " ", "i", "m", "p", "a", "c", "t", " ", "e", "x",
        "p", "e", "c", "t", "e", "d">> }

ElementClassHints ==
    { <<"h", "i", "g", "h">>,
      <<"m", "e", "d", "i", "u", "m">>,
      <<"l", "o", "w">>,
      <<"r", "e", "d">>,
      <<"o", "r", "a", "n", "g", "e">>,
      <<"y", "e", "l", "l", "o", "w">>,
      <<"i", "c", "o", "n", "-", "-", "f", "f", "-", "i", "m", "p", "a",
        "c", "t", "-", "r", "e", "d">>,
      <<"i", "c", "o", "n", "-", "-", "f", "f", "-", "i", "m", "p", "a",
        "c", "t", "-", "o", "r", "a">>,
      <<"i", "c", "o", "n", "-", "-", "f", "f", "-", "i", "m", "p", "a",
        "c", "t", "-", "y", "e", "l">>,
      <<"f", "f", "-", "i", "m", "p", "a", "c", "t", "-", "r", "e", "d">>,
      <<"f", "f", "-", "i", "m", "p", "a", "c", "t", "-", "o", "r", "a">>,
      <<"f", "f", "-", "i", "m", "p", "a", "c", "t", "-", "y", "e", "l">> }

\* lines 1798-1815: the level the span's classes name, <<>> when none
ElementImpact(cell) ==
    LET element_classes_str == Lower(cell.icon)
    IN  IF cell.icon = <<>> \/ ~ContainsAny(element_classes_str, ElementClassHints)
        THEN <<>>
        ELSE IF ContainsAny(element_classes_str, {TxtHigh, TxtRed} \cup CssRed)
        THEN High
        ELSE IF ContainsAny(element_classes_str, {TxtMedium, TxtOrange} \cup CssOra)
        THEN Medium
        ELSE IF ContainsAny(element_classes_str, {TxtLow, TxtYellow} \cup CssYel)
        THEN Low
        ELSE <<>>

\* _parse_impact_level (lines 1731-1842)
ParseImpactLevel(impact_cell) ==
    IF ~IsCell(impact_cell) THEN Low
    ELSE
    LET cell_html == Lower(Markup(impact_cell))
        cell_text == Lower(impact_cell.text)
        style_attr == Lower(impact_cell.style)
    IN  IF ContainsAny(cell_html, high_indicators) THEN High
        ELSE IF ContainsAny(cell_html, medium_indicators) THEN Medium
        ELSE IF ContainsAny(cell_html, low_indicators) THEN Low
        ELSE IF ContainsAny(cell_text, HighTexts) THEN High
        ELSE IF ContainsAny(cell_text, MediumTexts) THEN Medium
        ELSE IF ContainsAny(cell_text, LowTexts) THEN Low
        ELSE IF ElementImpact(impact_cell) # <<>> THEN ElementImpact(impact_cell)
        ELSE IF Contains(style_attr, TxtRed) THEN High
        ELSE IF Contains(style_attr, TxtOrange) \/ Contains(style_attr, TxtYellow)
        THEN Medium
        ELSE Low

\* _get_cell_text (lines 1721-1729)
GetCellText(cell) ==
    IF ~IsCell(cell) THEN NA
    ELSE IF cell.text = <<>> \/ cell.text = <<"-">> THEN NA
    ELSE cell.text

TxtAllDay == <<"a", "l", "l", " ", "d", "a", "y">>

TxtTbd == <<"t", "b", "d">>

\* re.search(r'\d{1,2}:\d{2}', s)
HasClockTime(s) ==
    \E k \in 2..(Len(s) - 2) :
        /\ s[k] = ":"
        /\ IsDigit(s[k - 1])
        /\ IsDigit(s[k + 1])
        /\ IsDigit(s[k + 2])

\* _is_time_cell (lines 1650-1667)
IsTimeCell(cell_text) ==
    /\ cell_text # <<>>
    /\ \/ HasClockTime(Lower(cell_text))
       \/ Contains(Lower(cell_text), TxtAllDay)
       \/ Contains(Lower(cell_text), TxtTbd)

\* line 1675
currency_codes ==
    { <<"U", "S", "D">>,
      <<"E", "U", "R">>,
      <<"G", "B", "P">>,
      <<"J", "P", "Y">>,
      <<"C", "H", "F">>,
      <<"A", "U", "D">>,
      <<"N", "Z", "D">>,
      <<"C", "A", "D">>,
      <<"C", "N", "Y">> }

\* _is_currency_cell (lines 1669-1683)
IsCurrencyCell(cell_text, cell) ==
    /\ cell_text # <<>>
    /\ \/ Upper(cell_text) \in currency_codes
       \/ cell.haslink /\ Upper(cell.link) \in currency_codes

\* line 1695
event_keywords ==
    { <<"b", "a", "n", "k", " ", "h", "o", "l", "i", "d", "a", "y">>,
      <<"s", "p", "e", "a", "k", "s">>,
      <<"m", "e", "e", "t", "i", "n", "g">>,
      <<"r", "a", "t", "e">>,
      <<"g", "d", "p">>,
      <<"i", "n", "f", "l", "a", "t", "i", "o", "n">>,
      <<"e", "m", "p", "l", "o", "y", "m", "e", "n", "t">> }

\* _is_event_cell (lines 1685-1699)
IsEventCell(cell_text, cell) ==
    /\ cell_text # <<>>
    /\ \/ cell.haslink
       \/ ContainsAny(Lower(cell_text), event_keywords)

\* the number of leading digits of s
RECURSIVE LeadingDigits(_)
LeadingDigits(s) ==
    IF s # <<>> /\ IsDigit(s[1]) THEN 1 + LeadingDigits(Tail(s)) ELSE 0

DropFirst(s, n) == SubSeq(s, n + 1, Len(s))

\* what is left of s after \d+\.?\d* ; <<"!">> when s does not begin with
\* a digit
AfterNumber(s) ==
    LET a == LeadingDigits(s)
        r1 == DropFirst(s, a)
        r2 == IF r1 # <<>> /\ r1[1] = "." THEN Tail(r1) ELSE r1
    IN  IF a = 0 THEN <<"!">> ELSE DropFirst(r2, LeadingDigits(r2))

\* _is_data_cell (lines 1701-1719); the patterns are matched against the
\* lower-cased text, so the suffixes K, M and B never match
IsDataCell(cell_text) ==
    /\ cell_text # <<>>
    /\ LET s == Lower(cell_text)
       IN  \/ AfterNumber(s) \in {<<>>, <<"%">>}
           \/ AfterNumber(s) \in {<<>>, <<"K">>, <<"M">>, <<"B">>}
           \/ s = <<"n", "/", "a">>
           \/ s = <<"-">>


\* the value of a run of one or two digits
DigitsValue(s) ==
    IF Len(s) = 1 THEN IndexIn(Digits, s[1]) - 1
    ELSE 10 * (IndexIn(Digits, s[1]) - 1) + (IndexIn(Digits, s[2]) - 1)

\* strptime on "%H:%M" followed by the text suffix: hours and minutes of
\* one or two digits; ok is FALSE where strptime raises ValueError
ParseClock(s, suffix) ==
    LET a == LeadingDigits(s)
        r == DropFirst(s, a)
        b == IF r = <<>> THEN 0 ELSE LeadingDigits(Tail(r))
    IN  IF /\ a \in 1..2
           /\ r # <<>>
           /\ r[1] = ":"
           /\ b \in 1..2
           /\ Upper(DropFirst(r, b + 1)) = suffix
        THEN [ok |-> TRUE,
              hour |-> DigitsValue(SubSeq(s, 1, a)),
              minute |-> DigitsValue(SubSeq(r, 2, b + 1))]
        ELSE [ok |-> FALSE, hour |-> 0, minute |-> 0]

TimeAt(target_date, hour) ==
    timedelta(DateOf(target_date)) + ((hour * TicksPerDay) \div 24)

\* _parse_time_string (lines 1844-1857)
ParseTimeString(time_str, target_date) ==
    LET am == ParseClock(time_str, <<"A", "M">>)
        pm == ParseClock(time_str, <<"P", "M">>)
        hm == ParseClock(time_str, <<>>)
    IN  IF Contains(time_str, <<"A", "M">>) \/ Contains(time_str, <<"P", "M">>)
        THEN IF am.ok /\ am.hour \in 1..12 /\ am.minute < 60
             THEN TimeAt(target_date, am.hour % 12)
             ELSE IF pm.ok /\ pm.hour \in 1..12 /\ pm.minute < 60
             THEN TimeAt(target_date, (pm.hour % 12) + 12)
             ELSE Noon(target_date)
        ELSE IF Contains(time_str, <<":">>)
        THEN IF hm.ok /\ hm.hour < 24 /\ hm.minute < 60
             THEN TimeAt(target_date, hm.hour)
             ELSE Noon(target_date)
        ELSE Noon(target_date)

\* lines 1861-1871
currency_country_mapping ==
    { <<<<"U", "S", "D">>, <<"U", "n", "i", "t", "e", "d", " ", "S", "t", "a", "t", "e", "s">>>>,
      <<<<"E", "U", "R">>, <<"E", "u", "r", "o", "z", "o", "n", "e">>>>,
      <<<<"G", "B", "P">>, <<"U", "n", "i", "t", "e", "d", " ", "K", "i", "n", "g", "d", "o", "m">>>>,
      <<<<"J", "P", "Y">>, <<"J", "a", "p", "a", "n">>>>,
      <<<<"C", "H", "F">>, <<"S", "w", "i", "t", "z", "e", "r", "l", "a", "n", "d">>>>,
      <<<<"A", "U", "D">>, <<"A", "u", "s", "t", "r", "a", "l", "i", "a">>>>,
      <<<<"N", "Z", "D">>, <<"N", "e", "w", " ", "Z", "e", "a", "l", "a", "n", "d">>>>,
      <<<<"C", "A", "D">>, <<"C", "a", "n", "a", "d", "a">>>>,
      <<<<"C", "N", "Y">>, <<"C", "h", "i", "n", "a">>>> }

\* lines 1874-1891, in the order of the elif chain
event_country_indicators ==
    << <<{<<"U", "S">>, <<"U", "n", "i", "t", "e", "d", " ", "S", "t", "a", "t", "e", "s">>}, <<"U", "n", "i", "t", "e", "d", " ", "S", "t", "a", "t", "e", "s">>>>,
       <<{<<"E", "u", "r", "o">>, <<"E", "u", "r", "o", "p", "e", "a", "n">>}, <<"E", "u", "r", "o", "z", "o", "n", "e">>>>,
       <<{<<"U", "K">>, <<"B", "r", "i", "t", "i", "s", "h">>}, <<"U", "n", "i", "t", "e", "d", " ", "K", "i", "n", "g", "d", "o", "m">>>>,
       <<{<<"J", "a", "p", "a", "n">>}, <<"J", "a", "p", "a", "n">>>>,
       <<{<<"S", "w", "i", "s", "s">>}, <<"S", "w", "i", "t", "z", "e", "r", "l", "a", "n", "d">>>>,
       <<{<<"A", "u", "s", "t", "r", "a", "l", "i", "a", "n">>}, <<"A", "u", "s", "t", "r", "a", "l", "i", "a">>>>,
       <<{<<"N", "e", "w", " ", "Z", "e", "a", "l", "a", "n", "d">>}, <<"N", "e", "w", " ", "Z", "e", "a", "l", "a", "n", "d">>>>,
       <<{<<"C", "a", "n", "a", "d", "i", "a", "n">>}, <<"C", "a", "n", "a", "d", "a">>>>,
       <<{<<"C", "h", "i", "n", "e", "s", "e">>}, <<"C", "h", "i", "n", "a">>>> >>

\* _extract_country_from_event (lines 1859-1894)
ExtractCountryFromEvent(event_name, currency) ==
    LET hits == SelectSeq(event_country_indicators,
                    LAMBDA p : ContainsAny(event_name, p[1]))
    IN  IF hits # <<>> THEN hits[1][2]
        ELSE Lookup(currency_country_mapping, currency, Unknown)

TxtTime == <<"t", "i", "m", "e">>

TxtCurrency == <<"c", "u", "r", "r", "e", "n", "c", "y">>

TxtImpact == <<"i", "m", "p", "a", "c", "t">>

TxtEvent == <<"e", "v", "e", "n", "t">>

AllDay == <<"A", "l", "l", " ", "D", "a", "y">>

USD == <<"U", "S", "D">>

\* lines 1555-1582: the branch of the elif chain that cell i of the row takes
CellRole(cells, i) ==
    LET cell == cells[i]
        cell_classes == Lower(cell.cls)
    IN  IF i = 1 \/ Contains(cell_classes, TxtTime) \/ IsTimeCell(cell.text)
        THEN "time"
        ELSE IF Contains(cell_classes, TxtCurrency) \/ IsCurrencyCell(cell.text, cell)
        THEN "currency"
        ELSE IF Contains(cell_classes, TxtImpact)
        THEN "impact"
        ELSE IF Contains(cell_classes, TxtEvent) \/ IsEventCell(cell.text, cell)
        THEN "event"
        ELSE IF IsDataCell(cell.text)
        THEN "data"
        ELSE "other"

WithRole(cells, role) == {i \in 1..Len(cells) : CellRole(cells, i) = role}

Max(S) == CHOOSE x \in S : \A y \in S : y <= x

\* the cell the loop leaves in a variable that every matching cell
\* overwrites; positional fallback (lines 1585-1592) when no cell matched
LastWithRole(cells, role, position) ==
    IF WithRole(cells, role) # {} THEN cells[Max(WithRole(cells, role))]
    ELSE IF Len(cells) >= position THEN cells[position]
    ELSE NoCell

\* the k-th data cell in row order (lines 1576-1582); positional fallback
\* (lines 1593-1598) when there are fewer than k data cells
DataCell(cells, k, position) ==
    LET data == WithRole(cells, "data")
    IN  IF Cardinality(data) >= k
        THEN cells[CHOOSE i \in data : Cardinality({j \in data : j <= i}) = k]
        ELSE IF Len(cells) >= position THEN cells[position]
        ELSE NoCell

\* link text if the cell holds a link, else the cell text
LinkOrText(cell) == IF cell.haslink THEN cell.link ELSE cell.text

\* _parse_event_row (lines 1538-1648)
ParseEventRow(cells, target_date) ==
    IF Len(cells) < 3 THEN NoEvent
    ELSE
    LET time_cell == LastWithRole(cells, "time", 1)
        currency_cell == LastWithRole(cells, "currency", 2)
        impact_cell == LastWithRole(cells, "impact", 3)
        event_cell == LastWithRole(cells, "event", 4)
        actual_cell == DataCell(cells, 1, 5)
        forecast_cell == DataCell(cells, 2, 6)
        previous_cell == DataCell(cells, 3, 7)
        time_text == IF IsCell(time_cell) THEN time_cell.text ELSE AllDay
        event_time == IF time_text = <<>> \/ time_text = AllDay
                      THEN Midnight(target_date)
                      ELSE ParseTimeString(time_text, target_date)
        currency == IF IsCell(currency_cell) THEN LinkOrText(currency_cell) ELSE USD
        impact == IF IsCell(impact_cell) THEN ParseImpactLevel(impact_cell) ELSE Low
        event_name == IF IsCell(event_cell) THEN LinkOrText(event_cell) ELSE <<>>
    IN  IF event_name = <<>> \/ Strip(event_name) = <<>>
        THEN NoEvent
        ELSE [DateTime |-> event_time,
              Event |-> StrVal(event_name),
              Country |-> ExtractCountryFromEvent(event_name, currency),
              Impact |-> impact,
              Currency |-> StrVal(currency),
              Actual |-> GetCellText(actual_cell),
              Forecast |-> GetCellText(forecast_cell),
              Previous |-> GetCellText(previous_cell)]

(***************************************************************************)
(* _enhance_js_events_with_html_data (scraper.py 1362-1423)                *)
(***************************************************************************)
CellAt(cells, position) ==
    IF Len(cells) >= position THEN cells[position] ELSE NoCell

\* line 1399: the rendered row matches the event by name
RowMatches(cells, js_event) ==
    /\ Len(cells) >= 4
    /\ LinkOrText(cells[4]) # <<>>
    /\ Truthy(js_event.Event)
    /\ Contains(Lower(js_event.Event.s), Lower(LinkOrText(cells[4])))

\* line 1399 raises (js_event_name.lower()) for an event name that is not a
\* text, as soon as a row with four cells and a name is compared with it
MatchRaises(rows, js_event) ==
    /\ js_event.Event.t # "str"
    /\ Truthy(js_event.Event)
    /\ \E r \in 1..Len(rows) : Len(rows[r]) >= 4 /\ LinkOrText(rows[r][4]) # <<>>

\* lines 1385-1418 for one event: the values of the first matching row
EnhanceEvent(js_event, rows) ==
    LET matching == SelectSeq(rows, LAMBDA cells : RowMatches(cells, js_event))
        cells == matching[1]
    IN  IF matching = <<>> THEN js_event
        ELSE [js_event EXCEPT
                !.Actual = GetCellText(CellAt(cells, 5)),
                !.Forecast = GetCellText(CellAt(cells, 6)),
                !.Previous = GetCellText(CellAt(cells, 7)),
                !.Impact = ParseImpactLevel(cells[3])]

\* the whole method: the events are enhanced in order; the exception of
\* line 1399 ends the loop (caught at line 1420) and leaves the remaining
\* events as they are
RECURSIVE EnhanceJsEventsWithHtmlData(_, _)
EnhanceJsEventsWithHtmlData(js_events, rows) ==
    IF js_events = <<>> THEN <<>>
    ELSE IF MatchRaises(rows, js_events[1]) THEN js_events
    ELSE <<EnhanceEvent(js_events[1], rows)>>
            \o EnhanceJsEventsWithHtmlData(Tail(js_events), rows)


(***************************************************************************)
(* Extraction of one loaded day page: the part of _scrape_day after the    *)
(* navigation (scraper.py 996-1044).                                       *)
(*   ex_pc      position in _scrape_day                                    *)
(*   page       the loaded page: js, the events of the embedded            *)
(*              calendarComponentStates (a sequence of event_data          *)
(*              dictionaries; has_js tells whether the state object was    *)
(*              found), and rows, the tr.calendar__row rows of the table   *)
(*   ex_events  the list `events` of _scrape_day                           *)
(***************************************************************************)
TokRed ==
    <<"I", "c", "o", "n", "-", "-", "F", "f", "-", "I", "m", "p", "a", "c",
     "t", "-", "R", "e", "d">>

TokOraLower ==
    <<"i", "c", "o", "n", "-", "-", "f", "f", "-", "i", "m", "p", "a", "c",
     "t", "-", "o", "r", "a">>

TokYelUpper ==
    <<"I", "C", "O", "N", "-", "-", "F", "F", "-", "I", "M", "P", "A", "C",
     "T", "-", "Y", "E", "L">>

TokGra ==
    <<"I", "c", "o", "n", "-", "-", "F", "f", "-", "I", "m", "p", "a", "c",
     "t", "-", "G", "r", "a">>

TokHighLower == <<"h", "i", "g", "h">>

TokHoliday == <<"h", "o", "l", "i", "d", "a", "y">>

\* impact hints the embedded state can hold
ImpactHints ==
    {StrVal(TokRed), StrVal(TokOraLower), StrVal(TokYelUpper), StrVal(TokGra),
     StrVal(TokHighLower), StrVal(Medium), StrVal(TokHoliday), StrVal(<<>>),
     IntVal(3), NoneVal}

ImpactKeys == {"impact", "impactLevel", "className", "impactNum", "impactString"}

\* the impact part of an event_data dictionary: no hint at all, or one hint
\* field, or a CSS class field next to a numeric field
ImpactParts ==
    {<<>>}
      \cup {[k \in {key} |-> hint] : key \in ImpactKeys, hint \in ImpactHints}
      \cup {[k \in {"className", "impactNum"} |->
                IF k = "className" THEN StrVal(TokHoliday) ELSE hint] :
            hint \in {IntVal(2), StrVal(TokHoliday)}}

TitleCpi == <<"C", "P", "I">>

TitleCoreCpi ==
    <<"C", "o", "r", "e", " ", "C", "P", "I", " ", "m", "/", "m">>

CodeUs == <<"u", "s">>

\* the title part of an event_data dictionary
TitleParts ==
    {<<>>,
     [k \in {"name"} |-> StrVal(<<>>)],
     [k \in {"name"} |-> StrVal(TitleCpi)],
     [k \in {"name"} |-> NoneVal],
     [k \in {"name", "soloTitle"} |->
         IF k = "name" THEN StrVal(TitleCoreCpi) ELSE StrVal(<<>>)],
     [k \in {"name", "soloTitle"} |->
         IF k = "name" THEN StrVal(TitleCoreCpi) ELSE NoneVal],
     [k \in {"name", "soloTitle"} |->
         IF k = "name" THEN StrVal(<<>>) ELSE StrVal(<<" ">>)],
     [k \in {"prefixedName", "trimmedPrefixedName"} |->
         IF k = "prefixedName" THEN StrVal(TitleCpi) ELSE StrVal(<<>>)],
     [k \in {"name"} |-> IntVal(5)]}

\* currency, country and dateline of an event_data dictionary
OtherParts ==
    {[k \in {"currency", "country"} |->
         IF k = "currency" THEN StrVal(USD) ELSE StrVal(CodeUs)],
     [k \in {"currency", "country", "dateline"} |->
         IF k = "currency" THEN StrVal(<<>>)
         ELSE IF k = "country" THEN StrVal(<<>>) ELSE IntVal(1)],
     [k \in {"currency", "country"} |->
         IF k = "currency" THEN StrVal(USD) ELSE NoneVal]}

\* the dictionary with the entries of a, b and c (disjoint keys)
Merge(a, b, c) ==
    [k \in (DOMAIN a) \cup (DOMAIN b) \cup (DOMAIN c) |->
        IF k \in DOMAIN a THEN a[k] ELSE IF k \in DOMAIN b THEN b[k] ELSE c[k]]

EventDatas ==
    {Merge(i, t, x) : i \in ImpactParts, t \in TitleParts, x \in OtherParts}

ClsTime ==
    <<"c", "a", "l", "e", "n", "d", "a", "r", "_", "_", "c", "e", "l", "l",
     " ", "c", "a", "l", "e", "n", "d", "a", "r", "_", "_", "t", "i", "m",
     "e">>

ClsCurrency ==
    <<"c", "a", "l", "e", "n", "d", "a", "r", "_", "_", "c", "e", "l", "l",
     " ", "c", "a", "l", "e", "n", "d", "a", "r", "_", "_", "c", "u", "r",
     "r", "e", "n", "c", "y">>

ClsImpact ==
    <<"c", "a", "l", "e", "n", "d", "a", "r", "_", "_", "c", "e", "l", "l",
     " ", "c", "a", "l", "e", "n", "d", "a", "r", "_", "_", "i", "m", "p",
     "a", "c", "t">>

ClsEvent ==
    <<"c", "a", "l", "e", "n", "d", "a", "r", "_", "_", "c", "e", "l", "l",
     " ", "c", "a", "l", "e", "n", "d", "a", "r", "_", "_", "e", "v", "e",
     "n", "t">>

ClsActual ==
    <<"c", "a", "l", "e", "n", "d", "a", "r", "_", "_", "c", "e", "l", "l",
     " ", "c", "a", "l", "e", "n", "d", "a", "r", "_", "_", "a", "c", "t",
     "u", "a", "l">>

ClsForecast ==
    <<"c", "a", "l", "e", "n", "d", "a", "r", "_", "_", "c", "e", "l", "l",
     " ", "c", "a", "l", "e", "n", "d", "a", "r", "_", "_", "f", "o", "r",
     "e", "c", "a", "s", "t">>

ClsPrevious ==
    <<"c", "a", "l", "e", "n", "d", "a", "r", "_", "_", "c", "e", "l", "l",
     " ", "c", "a", "l", "e", "n", "d", "a", "r", "_", "_", "p", "r", "e",
     "v", "i", "o", "u", "s">>

ClsPlain ==
    <<"c", "a", "l", "e", "n", "d", "a", "r", "_", "_", "c", "e", "l", "l">>

IconRed ==
    <<"i", "c", "o", "n", " ", "i", "c", "o", "n", "-", "-", "f", "f", "-",
     "i", "m", "p", "a", "c", "t", "-", "r", "e", "d">>

IconOra ==
    <<"i", "c", "o", "n", " ", "i", "c", "o", "n", "-", "-", "f", "f", "-",
     "i", "m", "p", "a", "c", "t", "-", "o", "r", "a">>

IconYel ==
    <<"i", "c", "o", "n", " ", "i", "c", "o", "n", "-", "-", "f", "f", "-",
     "i", "m", "p", "a", "c", "t", "-", "y", "e", "l">>

IconGra ==
    <<"i", "c", "o", "n", " ", "i", "c", "o", "n", "-", "-", "f", "f", "-",
     "i", "m", "p", "a", "c", "t", "-", "g", "r", "a">>

TimeText == <<"8", ":", "3", "0", "a", "m">>

ValueText == <<"0", ".", "2", "%">>

Icons == {IconRed, IconOra, IconYel, IconGra, <<>>}

RowTitles == {TitleCpi, <<>>}

RowValues == {ValueText, <<>>}

\* a row of the calendar table with the seven standard columns
StandardRow(icon, title, actual) ==
    <<Cell(ClsTime, TimeText, <<>>), Cell(ClsCurrency, USD, <<>>),
      Cell(ClsImpact, <<>>, icon), Cell(ClsEvent, title, <<>>),
      Cell(ClsActual, actual, <<>>), Cell(ClsForecast, ValueText, <<>>),
      Cell(ClsPrevious, ValueText, <<>>)>>

ActualText == <<"0", ".", "1", "%">>

PreviousText == <<"0", ".", "3", "%">>

\* a row with the seven standard columns and the three value cells given
ValuesRow(actual, forecast, previous) ==
    <<Cell(ClsTime, TimeText, <<>>), Cell(ClsCurrency, USD, <<>>),
      Cell(ClsImpact, <<>>, IconOra), Cell(ClsEvent, TitleCpi, <<>>),
      Cell(ClsActual, actual, <<>>), Cell(ClsForecast, forecast, <<>>),
      Cell(ClsPrevious, previous, <<>>)>>

\* every combination of empty and non-empty value cells
ValuesRows ==
    {ValuesRow(actual, forecast, previous) :
        actual \in {ActualText, <<>>}, forecast \in {ValueText, <<>>},
        previous \in {PreviousText, <<>>}}

\* a row whose cells have no telling classes, and a row of two cells
PlainRow(icon, title) ==
    <<Cell(ClsPlain, <<>>, <<>>), Cell(ClsPlain, <<>>, <<>>),
      Cell(ClsPlain, <<>>, icon), LinkCell(ClsPlain, title)>>

ShortRow == <<Cell(ClsTime, AllDay, <<>>), Cell(ClsCurrency, USD, <<>>)>>

TableRows ==
    {StandardRow(icon, title, actual) :
        icon \in Icons, title \in RowTitles, actual \in RowValues}
      \cup {PlainRow(icon, title) : icon \in {IconOra, <<>>}, title \in RowTitles}
      \cup {ShortRow}

Singletons(S) == {<<x>> : x \in S}

\* the pages: the embedded state with one event, with none (state object
\* missing), or with two events; the table with no row, one row or two
Pages ==
    [has_js : {TRUE}, js : Singletons(EventDatas),
     rows : {<<>>, <<StandardRow(IconRed, TitleCpi, ValueText)>>,
             <<StandardRow(<<>>, TitleCpi, <<>>)>>}]
    \cup
    [has_js : {FALSE}, js : {<<>>},
     rows : {<<>>} \cup Singletons(TableRows) \cup Singletons(ValuesRows)
              \cup {<<StandardRow(IconRed, <<>>, ValueText),
                      StandardRow(IconOra, TitleCpi, <<>>)>>}]
    \cup
    [has_js : {TRUE},
     js : {<<Merge([k \in {"name"} |-> IntVal(5)], <<>>, x),
             Merge([k \in {"name"} |-> StrVal(TitleCpi)],
                   [k \in {"impact"} |-> StrVal(TokHoliday)], x)>> :
           x \in OtherParts},
     rows : {<<>>, <<StandardRow(IconRed, TitleCpi, ValueText)>>}]
    \cup
    [has_js : {TRUE},
     js : Singletons({Merge(i, [k \in {"name"} |-> StrVal(TitleCpi)],
                            [k \in {"currency", "country"} |->
                                IF k = "currency" THEN StrVal(USD)
                                ELSE StrVal(CodeUs)]) :
                      i \in {<<>>, [k \in {"impact"} |-> StrVal(TokRed)]}}),
     rows : {<<ValuesRow(ActualText, ValueText, PreviousText),
               StandardRow(IconRed, TitleCpi, <<>>)>>,
             <<StandardRow(IconRed, TitleCpi, <<>>),
               ValuesRow(ActualText, ValueText, PreviousText)>>,
             <<StandardRow(IconRed, TitleCoreCpi, ValueText),
               ValuesRow(ActualText, <<>>, PreviousText)>>}]

VARIABLES ex_pc, page, ex_events

extractVars == <<ex_pc, page, ex_events>>

ExtractIdle ==
    /\ ex_pc = "idle"
    /\ page = [has_js |-> FALSE, js |-> <<>>, rows |-> <<>>]
    /\ ex_events = <<>>

\* the target date of the day page
TargetDate == timedelta(1)

\* the page is loaded (line 993 returned True), events = [] (line 996)
ExtractStart ==
    /\ ex_pc = "loaded"
    /\ page \in Pages
    /\ ex_events = <<>>

\* the events of xs that were not dropped
Kept(xs) == SelectSeq(xs, Emitted)

\* _parse_js_calendar_data (lines 1155-1173)
ParseJsCalendarData(js, target_date) ==
    Kept([k \in 1..Len(js) |-> ParseJsEventData(js[k], target_date)])

\* the row loop of _scrape_day_fallback_html (lines 1475-1485)
ScrapeDayFallbackHtml(rows, target_date) ==
    Kept([k \in 1..Len(rows) |-> ParseEventRow(rows[k], target_date)])

\* lines 1008-1011: the embedded state was found, its events are parsed
ParseJs ==
    /\ ex_pc = "loaded"
    /\ page.has_js
    /\ ex_events' = ParseJsCalendarData(page.js, TargetDate)
    /\ ex_pc' = "parsed"
    /\ UNCHANGED page

\* line 1015: the parsed events are enhanced with the rendered rows
Enhance ==
    /\ ex_pc = "parsed"
    /\ ex_events' = EnhanceJsEventsWithHtmlData(ex_events, page.rows)
    /\ ex_pc' = "extracted"
    /\ UNCHANGED page

\* lines 1017-1020: no embedded state, the rendered rows are parsed
FallbackHtml ==
    /\ ex_pc = "loaded"
    /\ ~page.has_js
    /\ ex_events' = ScrapeDayFallbackHtml(page.rows, TargetDate)
    /\ ex_pc' = "extracted"
    /\ UNCHANGED page

\* line 1028: _convert_impact_in_events
ConvertImpactInEvents ==
    /\ ex_pc = "extracted"
    /\ ex_events' = [k \in 1..Len(ex_events) |-> ConvertImpactInEvent(ex_events[k])]
    /\ ex_pc' = "converted"
    /\ UNCHANGED page

\* line 1044: return events
ReturnEvents ==
    /\ ex_pc = "converted"
    /\ ex_pc' = "returned"
    /\ UNCHANGED <<page, ex_events>>


(***************************************************************************)
(* scrape_date_range (scraper.py 735-804) with _scrape_range_by_days,      *)
(* _scrape_range_by_daily_fallback, _navigate_to_page and _scrape_day.     *)
(*   rg_pc              position in the run                                *)
(*   rg_start, rg_end   the arguments start_date and end_date              *)
(*   ranges             the windows of line 747                            *)
(*   range_index        i of line 755                                      *)
(*   all_events         the list `events` of scrape_date_range             *)
(*   successful_ranges, failed_ranges   the counters of lines 750-751      *)
(*   driver             self.driver: 0 is None, n > 0 the n-th session     *)
(*                      this run created                                   *)
(*   sessions           the number of sessions created so far              *)
(*   quit               the sessions driver.quit() was called on           *)
(*   attempt            the loop variable of _navigate_to_page             *)
(*   current_date       the loop variable of the daily fallback            *)
(*   range_events       the list `events` of the window being scraped      *)
(* and, recorded for the properties only,                                  *)
(*   used        for each window, the sessions a command was sent to       *)
(*               while the window was scraped                              *)
(*   created_in  for each session, the window it was created in            *)
(*   returned    for each finished window, the list it returned            *)
(*   nav_failed  the windows in which a navigation returned False, and     *)
(*   nav_loaded  the windows in which a navigation returned True           *)
(*   rg_view     what _scrape_range_by_days found on the range page of the *)
(*               window in progress: "none" before the page is looked at,  *)
(*               "unresponsive" (line 834), "no table" (line 529) or       *)
(*               "table"                                                   *)
(*   attempted   the dates the daily loop of the window in progress went   *)
(*               on to scrape (line 864), oldest first                     *)
(***************************************************************************)
VARIABLES rg_pc, rg_start, rg_end, ranges, range_index, all_events,
          successful_ranges, failed_ranges, driver, sessions, quit, attempt,
          current_date, range_events, used, created_in, returned,
          nav_failed, nav_loaded, rg_view, attempted

rangeVars ==
    <<rg_pc, rg_start, rg_end, ranges, range_index, all_events,
      successful_ranges, failed_ranges, driver, sessions, quit, attempt,
      current_date, range_events, used, created_in, returned,
      nav_failed, nav_loaded, rg_view, attempted>>

\* the latest day a run ends on, and the sessions a run may create
MaxRunDay == 31
MaxSessions == 3

\* self.retry_attempts (line 36)
retry_attempts == 3

\* _split_into_ranges (lines 373-399) as a function of its arguments
RECURSIVE SplitFrom(_, _, _)
SplitFrom(cs, ed, mm) ==
    IF cs <= ed
    THEN <<<<cs, WindowEnd(cs, ed, mm)>>>>
            \o SplitFrom(NextStart(WindowEnd(cs, ed, mm)), ed, mm)
    ELSE <<>>

SplitIntoRanges(sd, ed, mm) == SplitFrom(sd, ed, mm)

\* date.weekday(): day 0 is a Monday
Weekday(dt) == DateOf(dt) % 7

\* _is_weekend and _should_skip_date (lines 363-371)
ShouldSkipDate(dt) == Weekday(dt) \in {5, 6}

\* the site: the days that have an event, the row of the calendar table an
\* event day shows, and the page of a day
EventDays == {0, 2, 30}

EventRow == StandardRow(IconRed, TitleCpi, ValueText)

DayPage(day) ==
    [has_js |-> FALSE, js |-> <<>>,
     rows |-> IF day \in EventDays THEN <<EventRow>> ELSE <<>>]

\* the event days the site shows for the range URL of lines 815-817, which
\* names the two dates
ShownDays(range_start, range_end) ==
    {d \in EventDays : DateOf(range_start) <= d /\ d <= DateOf(range_end)}

\* the days of S in ascending order
RECURSIVE Ascending(_)
Ascending(S) ==
    IF S = {} THEN <<>>
    ELSE LET least == CHOOSE x \in S : \A y \in S : x <= y
         IN  <<least>> \o Ascending(S \ {least})

\* _scrape_calendar_table_for_range (lines 558-614): under the header of
\* day d, which _parse_date_header reads as midnight of d, a row is parsed
\* if that instant is within the window
ScrapeCalendarTableForRange(range_start, range_end) ==
    LET days == Ascending(ShownDays(range_start, range_end))
        in_range == SelectSeq(days, LAMBDA d :
                        range_start <= Midnight(timedelta(d))
                          /\ Midnight(timedelta(d)) <= range_end)
    IN  Kept([k \in 1..Len(in_range) |->
                ParseEventRow(EventRow, Midnight(timedelta(in_range[k])))])

\* _scrape_day after the navigation (lines 996-1028)
ExtractDay(pg, target_date) ==
    LET extracted ==
            IF pg.has_js
            THEN EnhanceJsEventsWithHtmlData(
                     ParseJsCalendarData(pg.js, target_date), pg.rows)
            ELSE ScrapeDayFallbackHtml(pg.rows, target_date)
    IN  [k \in 1..Len(extracted) |-> ConvertImpactInEvent(extracted[k])]

RangeIdle ==
    /\ rg_pc = "idle"
    /\ rg_start = 0
    /\ rg_end = 0
    /\ ranges = <<>>
    /\ range_index = 0
    /\ all_events = <<>>
    /\ successful_ranges = 0
    /\ failed_ranges = 0
    /\ driver = 0
    /\ sessions = 0
    /\ quit = {}
    /\ attempt = 0
    /\ current_date = 0
    /\ range_events = <<>>
    /\ used = <<>>
    /\ created_in = <<>>
    /\ returned = <<>>
    /\ nav_failed = {}
    /\ nav_loaded = {}
    /\ rg_view = "none"
    /\ attempted = <<>>

\* scrape_date_range(start_date, end_date), lines 737-755: the windows are
\* computed and the loop is entered
RangeCall(sd, ed) ==
    /\ rg_pc = "for"
    /\ rg_start = sd
    /\ rg_end = ed
    /\ ranges = SplitIntoRanges(rg_start, rg_end, 1)
    /\ range_index = 1
    /\ all_events = <<>>
    /\ successful_ranges = 0
    /\ failed_ranges = 0
    /\ driver = 0
    /\ sessions = 0
    /\ quit = {}
    /\ attempt = 0
    /\ current_date = 0
    /\ range_events = <<>>
    /\ used = [k \in 1..Len(ranges) |-> {}]
    /\ created_in = <<>>
    /\ returned = <<>>
    /\ nav_failed = {}
    /\ nav_loaded = {}
    /\ rg_view = "none"
    /\ attempted = <<>>

\* a run from a time of the first day to a time of one of the last two days
RangeStart ==
    \E sd \in 0..(TicksPerDay - 1),
       ed \in timedelta(MaxRunDay - 1)..(timedelta(MaxRunDay) + TicksPerDay - 1) :
        RangeCall(sd, ed)

range_start == ranges[range_index][1]

range_end == ranges[range_index][2]

\* a command is sent to the sessions of S while the current window is scraped
Use(S) == [used EXCEPT ![range_index] = @ \cup (S \ {0})]

\* _setup_driver (lines 47-137) with self.driver = d after n sessions: it
\* raises before a session exists (line 104 or 106), or creates session
\* n + 1 and then returns or raises (line 124)
SetupDriver(d, n) ==
    {[driver |-> d, sessions |-> n, raised |-> TRUE]}
      \cup {[driver |-> n + 1, sessions |-> n + 1, raised |-> r] :
            r \in IF n < MaxSessions THEN BOOLEAN ELSE {}}

\* self._setup_driver() without the test of self.driver
SetupAlways(d, n) == SetupDriver(d, n)

\* `if not self.driver: self._setup_driver()` (lines 810-812, 867-869)
SetupIfMissing(d, n) ==
    IF d = 0 THEN SetupDriver(d, n)
    ELSE {[driver |-> d, sessions |-> n, raised |-> FALSE]}

\* the windows the sessions n + 1 .. m were created in
Created(n, m) == created_in \o [k \in 1..(m - n) |-> range_index]

\* lines 755-760 and 808-812: the next window is entered; without a driver
\* a session is set up, and if that raises the window falls back to the
\* daily loop (lines 843-847)
EnterRange ==
    /\ rg_pc = "for"
    /\ range_index <= Len(ranges)
    /\ \E s \in SetupIfMissing(driver, sessions) :
          /\ driver' = s.driver
          /\ sessions' = s.sessions
          /\ created_in' = Created(sessions, s.sessions)
          /\ rg_pc' = IF s.raised THEN "while" ELSE "navigate_range"
          /\ current_date' = IF s.raised THEN range_start ELSE current_date
    /\ attempt' = 0
    /\ range_events' = <<>>
    /\ UNCHANGED <<rg_view, attempted>>
    /\ UNCHANGED <<rg_start, rg_end, ranges, range_index, all_events,
                   successful_ranges, failed_ranges, quit, used, returned,
                   nav_failed, nav_loaded>>

Navigating == rg_pc \in {"navigate_range", "navigate_day"}

\* _navigate_to_page returns True: the range page is scraped (line 838),
\* the day page is parsed (line 996)
NavigationLoaded ==
    /\ rg_pc' = IF rg_pc = "navigate_range" THEN "table" ELSE "parse_day"
    /\ nav_loaded' = nav_loaded \cup {range_index}
    /\ UNCHANGED <<attempt, current_date, range_events, nav_failed>>

\* the failed navigation raises instead of returning False, up to the
\* handler of line 799, which ends the run
NavigationFailedRaises ==
    /\ rg_pc' = "done"
    /\ nav_failed' = nav_failed \cup {range_index}
    /\ UNCHANGED <<attempt, current_date, range_events, nav_loaded>>

\* _navigate_to_page returns False: the window falls back to the daily loop
\* (lines 822-826), the day has no events (lines 993-994, 872-888)
NavigationFailed ==
    /\ rg_pc' = "while"
    /\ current_date' = IF rg_pc = "navigate_range" THEN range_start
                       ELSE current_date + timedelta(1)
    /\ range_events' = IF rg_pc = "navigate_range" THEN <<>> ELSE range_events
    /\ nav_failed' = nav_failed \cup {range_index}
    /\ UNCHANGED <<attempt, nav_loaded>>

\* the attempt is over without a result: the next one, or after the last
\* one False (lines 314-321)
NextAttempt ==
    IF attempt + 1 < retry_attempts
    THEN /\ attempt' = attempt + 1
         /\ UNCHANGED <<rg_pc, current_date, range_events, nav_failed, nav_loaded>>
    ELSE NavigationFailed

\* lines 199-294: the page loads
NavigateLoads ==
    /\ Navigating
    /\ NavigationLoaded
    /\ used' = Use({driver})
    /\ UNCHANGED <<rg_view, attempted>>
    /\ UNCHANGED <<rg_start, rg_end, ranges, range_index, all_events,
                   successful_ranges, failed_ranges, driver, sessions, quit,
                   created_in, returned>>

\* lines 199-270 and 296-312: a timeout, an error page, a verification page
\* that stays, or another error, with the session still alive
NavigateFails ==
    /\ Navigating
    /\ NextAttempt
    /\ used' = Use({driver})
    /\ UNCHANGED <<rg_view, attempted>>
    /\ UNCHANGED <<rg_start, rg_end, ranges, range_index, all_events,
                   successful_ranges, failed_ranges, driver, sessions, quit,
                   created_in, returned>>

\* lines 233-241, 260-266 and 303-310: the session is lost and
\* _handle_invalid_session (lines 1514-1536) closes it and sets up another
\* one; False if the setup raises
NavigateSessionLost ==
    /\ Navigating
    /\ \E s \in SetupDriver(0, sessions) :
          /\ driver' = s.driver
          /\ sessions' = s.sessions
          /\ created_in' = Created(sessions, s.sessions)
          /\ IF s.raised THEN NavigationFailed ELSE NextAttempt
    /\ quit' = quit \cup {driver}
    /\ used' = Use({driver})
    /\ UNCHANGED <<rg_view, attempted>>
    /\ UNCHANGED <<rg_start, rg_end, ranges, range_index, all_events,
                   successful_ranges, failed_ranges, returned>>

\* lines 233-238 followed by lines 260-266: the session set up after the
\* verification is lost as well
NavigateSessionLostTwice ==
    /\ Navigating
    /\ sessions < MaxSessions
    /\ \E s \in SetupDriver(0, sessions + 1) :
          /\ driver' = s.driver
          /\ sessions' = s.sessions
          /\ created_in' = Created(sessions, s.sessions)
          /\ IF s.raised THEN NavigationFailed ELSE NextAttempt
    /\ quit' = quit \cup {driver, sessions + 1}
    /\ used' = Use({driver, sessions + 1})
    /\ UNCHANGED <<rg_view, attempted>>
    /\ UNCHANGED <<rg_start, rg_end, ranges, range_index, all_events,
                   successful_ranges, failed_ranges, returned>>

\* lines 832-841: the range page is scraped, unless the driver does not
\* respond (line 834) or the page has no calendar table (line 529)
ScrapeRangePage ==
    /\ rg_pc = "table"
    /\ \E view \in {"unresponsive", "no table", "table"} :
          /\ rg_view' = view
          /\ range_events' =
                 IF view = "table"
                 THEN ScrapeCalendarTableForRange(range_start, range_end)
                 ELSE <<>>
    /\ attempted' = attempted
    /\ used' = Use({driver})
    /\ rg_pc' = "collect"
    /\ UNCHANGED <<rg_start, rg_end, ranges, range_index, all_events,
                   successful_ranges, failed_ranges, driver, sessions, quit,
                   attempt, current_date, created_in, returned, nav_failed,
                   nav_loaded>>

\* line 856, condition false: the daily loop returns its events (line 891)
FallbackExit ==
    /\ rg_pc = "while"
    /\ ~(current_date <= range_end)
    /\ rg_pc' = "collect"
    /\ UNCHANGED <<rg_view, attempted>>
    /\ UNCHANGED <<rg_start, rg_end, ranges, range_index, all_events,
                   successful_ranges, failed_ranges, driver, sessions, quit,
                   attempt, current_date, range_events, used, created_in,
                   returned, nav_failed, nav_loaded>>

\* lines 859-862: a weekend day is skipped
FallbackSkip ==
    /\ rg_pc = "while"
    /\ current_date <= range_end
    /\ ShouldSkipDate(current_date)
    /\ current_date' = current_date + timedelta(1)
    /\ UNCHANGED <<rg_view, attempted>>
    /\ UNCHANGED <<rg_pc, rg_start, rg_end, ranges, range_index, all_events,
                   successful_ranges, failed_ranges, driver, sessions, quit,
                   attempt, range_events, used, created_in, returned,
                   nav_failed, nav_loaded>>

\* lines 864-872 and 981-993: the day is scraped, after a session was set
\* up if there is none; if the setup raises, the day is given up (lines
\* 883-888)
FallbackDay ==
    /\ rg_pc = "while"
    /\ current_date <= range_end
    /\ ~ShouldSkipDate(current_date)
    /\ \E s \in SetupIfMissing(driver, sessions) :
          /\ driver' = s.driver
          /\ sessions' = s.sessions
          /\ created_in' = Created(sessions, s.sessions)
          /\ rg_pc' = IF s.raised THEN "while" ELSE "navigate_day"
          /\ current_date' = IF s.raised THEN current_date + timedelta(1)
                             ELSE current_date
    /\ attempt' = 0
    /\ attempted' = Append(attempted, current_date)
    /\ rg_view' = rg_view
    /\ UNCHANGED <<rg_start, rg_end, ranges, range_index, all_events,
                   successful_ranges, failed_ranges, quit, range_events, used,
                   returned, nav_failed, nav_loaded>>

\* the frame row of an extracted record (pd.DataFrame(events), line 45 of
\* csv_exporter.py)
EventRecord(e) ==
    [DateTime |-> e.DateTime, Event |-> PyStr(e.Event),
     Currency |-> PyStr(e.Currency), Actual |-> e.Actual]

SinkEvents(events) == [k \in 1..Len(events) |-> EventRecord(events[k])]

\* the save of lines 1031-1042, if append_with_deduplication were
\* append_events
ScraperSaveAppends(file, calls, events) ==
    IF events = <<>> THEN [file |-> file, calls |-> calls]
    ELSE [file |-> AppendEvents(file, SinkEvents(events)).file,
          calls |-> Append(calls,
                       [events |-> SinkEvents(events),
                        ok |-> AppendEvents(file, SinkEvents(events)).ok,
                        before |-> file])]

\* the save of lines 1031-1042 with the file and the calls the sink has
\* seen: the events are mapped and csv_exporter.append_with_deduplication is
\* called, which CSVExporter does not have: the AttributeError is caught at
\* line 1041, and the sink has seen no call and the file stays as it is
ScraperSave(file, calls, events) == [file |-> file, calls |-> calls]

\* lines 996-1044 and 874-888: the loaded day page is extracted, unless the
\* driver does not respond (lines 1003-1005), and the save of lines
\* 1031-1042 is attempted
ScrapeDayPage ==
    /\ rg_pc = "parse_day"
    /\ \E view \in {"unresponsive", "page"} :
          LET day_events ==
                  IF view = "page"
                  THEN ExtractDay(DayPage(DateOf(current_date)), current_date)
                  ELSE <<>>
          IN  range_events' = range_events \o day_events
    /\ LET day_events == SubSeq(range_events', Len(range_events) + 1,
                                Len(range_events'))
       IN  /\ csv_file' = ScraperSave(csv_file, sink_calls, day_events).file
           /\ sink_calls' = ScraperSave(csv_file, sink_calls, day_events).calls
    /\ used' = Use({driver})
    /\ current_date' = current_date + timedelta(1)
    /\ rg_pc' = "while"
    /\ UNCHANGED <<rg_view, attempted>>
    /\ UNCHANGED <<rg_start, rg_end, ranges, range_index, all_events,
                   successful_ranges, failed_ranges, driver, sessions, quit,
                   attempt, created_in, returned, nav_failed, nav_loaded>>

\* _close_driver without its try/except/finally: a failing quit() raises and
\* leaves the attribute as it is
CloseDriverUnprotected(d, q, quit_raises) ==
    [driver |-> IF quit_raises /\ d # 0 THEN d ELSE 0,
     quit |-> q \cup ({d} \ {0}),
     raised |-> quit_raises /\ d # 0]

\* _close_driver (lines 139-149) with self.driver = d and the sessions of q
\* released so far: without a driver nothing happens; with one, quit() is
\* called, its error (quit_raises) is logged at line 146, and the finally
\* clause sets self.driver to None
CloseDriver(d, q, quit_raises) ==
    [driver |-> 0, quit |-> q \cup ({d} \ {0}), raised |-> FALSE]

\* lines 762-769 without the _close_driver of line 772
CollectRangeKeepsDriver ==
    /\ rg_pc = "collect"
    /\ all_events' = all_events \o range_events
    /\ successful_ranges' = successful_ranges + 1
    /\ returned' = Append(returned, range_events)
    /\ range_index' = range_index + 1
    /\ rg_pc' = "for"
    /\ rg_view' = "none"
    /\ attempted' = <<>>
    /\ UNCHANGED <<rg_start, rg_end, ranges, failed_ranges, driver, sessions,
                   quit, attempt, current_date, range_events, used, created_in,
                   nav_failed, nav_loaded>>

\* lines 762-772: _scrape_range_by_days returned a list (it has no return
\* of None), the window counts as successful, and the driver is closed
\* (_close_driver, lines 139-149)
CollectRange ==
    /\ rg_pc = "collect"
    /\ all_events' = all_events \o range_events
    /\ successful_ranges' = successful_ranges + 1
    /\ returned' = Append(returned, range_events)
    /\ \E quit_raises \in BOOLEAN :
          /\ quit' = CloseDriver(driver, quit, quit_raises).quit
          /\ driver' = CloseDriver(driver, quit, quit_raises).driver
    /\ range_index' = range_index + 1
    /\ rg_pc' = "for"
    /\ rg_view' = "none"
    /\ attempted' = <<>>
    /\ UNCHANGED <<rg_start, rg_end, ranges, failed_ranges, sessions, attempt,
                   current_date, range_events, used, created_in, nav_failed,
                   nav_loaded>>

\* lines 786-804 reached with the last window still to come
FinishRunSkipsLast ==
    /\ rg_pc = "for"
    /\ range_index >= Len(ranges)
    /\ \E quit_raises \in BOOLEAN :
          /\ quit' = CloseDriver(driver, quit, quit_raises).quit
          /\ driver' = CloseDriver(driver, quit, quit_raises).driver
    /\ rg_pc' = "done"
    /\ UNCHANGED <<rg_view, attempted>>
    /\ UNCHANGED <<rg_start, rg_end, ranges, range_index, all_events,
                   successful_ranges, failed_ranges, sessions, attempt,
                   current_date, range_events, used, created_in, returned,
                   nav_failed, nav_loaded>>

\* lines 786-804: after the last window the summary is logged, the driver
\* is closed and the events are returned
FinishRun ==
    /\ rg_pc = "for"
    /\ range_index > Len(ranges)
    /\ \E quit_raises \in BOOLEAN :
          /\ quit' = CloseDriver(driver, quit, quit_raises).quit
          /\ driver' = CloseDriver(driver, quit, quit_raises).driver
    /\ rg_pc' = "done"
    /\ UNCHANGED <<rg_view, attempted>>
    /\ UNCHANGED <<rg_start, rg_end, ranges, range_index, all_events,
                   successful_ranges, failed_ranges, sessions, attempt,
                   current_date, range_events, used, created_in, returned,
                   nav_failed, nav_loaded>>


(***************************************************************************)
(* _navigate_to_page (scraper.py 181-321), statement by statement.         *)
(*   nv_pc       position in the method                                    *)
(*   nv_retry    self.retry_attempts                                       *)
(*   nv_attempt  the number of iterations of the attempt loop begun        *)
(*   nv_page     the page the browser shows: "none" before the first load, *)
(*               "verification" (the bot challenge), "error" (404/403) or  *)
(*               "calendar"                                                *)
(*   nv_alive    whether the session answers commands; a command sent to a *)
(*               dead session raises                                       *)
(*   nv_polls    verification_attempt of lines 219 and 283                 *)
(*   nv_result   the value returned: "none" while running, "True", "False" *)
(* and, recorded for the properties only,                                  *)
(*   nv_loads    the number of driver.get(url) calls                       *)
(*   nv_sim      how _simulate_human_behavior ended in this attempt        *)
(*   nv_refreshed  whether driver.refresh() was called in this attempt     *)
(*   nv_recreated  where _handle_invalid_session last set up a session     *)
(*                 ("get", "title", "verification" or "no") and the number *)
(*                 of driver.get calls made by then                        *)
(*   nv_verif      whether the check of line 210 was positive in this      *)
(*                 attempt                                                 *)
(***************************************************************************)
VARIABLES nv_pc, nv_retry, nv_attempt, nv_page, nv_alive, nv_polls,
          nv_result, nv_loads, nv_sim, nv_refreshed, nv_recreated, nv_verif

navVars ==
    <<nv_pc, nv_retry, nv_attempt, nv_page, nv_alive, nv_polls, nv_result,
      nv_loads, nv_sim, nv_refreshed, nv_recreated, nv_verif>>

\* the largest retry_attempts a scraper is configured with
MaxRetry == 3

\* lines 214-215 and 280-281
max_verification_wait == 180
verification_check_interval == 10
delayed_verification_wait == 120

PageKinds == {"verification", "error", "calendar"}

\* _is_human_verification_page (lines 323-361): an error while reading the
\* page is answered False
IsHumanVerificationPage(pg, alive) == alive /\ pg = "verification"

\* _is_driver_responsive (lines 1495-1512)
IsDriverResponsive(alive) == alive

\* _simulate_human_behavior (lines 151-179): whether an error leaves the
\* method, for each way its body can end
SimulationEnds == {"done", "scroll raises", "pointer raises"}

\* the simulation without the handler of line 178
SimulateHumanBehaviorUnguarded(ending) == ending = "scroll raises"

SimulateHumanBehaviorRaises(ending) == FALSE

\* no session has been set up by _handle_invalid_session during the call
NotRecreated == <<"no", 0>>

NavIdle ==
    /\ nv_pc = "idle"
    /\ nv_retry = 0
    /\ nv_attempt = 0
    /\ nv_page = "none"
    /\ nv_alive = TRUE
    /\ nv_polls = 0
    /\ nv_result = "none"
    /\ nv_loads = 0
    /\ nv_sim = "none"
    /\ nv_refreshed = FALSE
    /\ nv_recreated = NotRecreated
    /\ nv_verif = FALSE

\* the call: a session is held and no attempt has been made
NavStart ==
    /\ nv_pc = "for"
    /\ nv_retry \in 0..MaxRetry
    /\ nv_attempt = 0
    /\ nv_page = "none"
    /\ nv_alive \in BOOLEAN
    /\ nv_polls = 0
    /\ nv_result = "none"
    /\ nv_loads = 0
    /\ nv_sim = "none"
    /\ nv_refreshed = FALSE
    /\ nv_recreated = NotRecreated
    /\ nv_verif = FALSE

\* return value
NavReturn(value) ==
    /\ nv_pc' = "returned"
    /\ nv_result' = value

\* the end of an iteration (lines 266, 270, 307, 314-318): back to line 183
NavContinue == nv_pc' = "for" /\ nv_result' = nv_result

\* _handle_invalid_session (lines 1514-1536) in the handler of lines
\* 303-310: the session is closed and another one set up, then the next
\* iteration; False if the setup raises
\* nv_recreated keeps the place of the last successful call and the number
\* of driver.get calls made by then.
NavHandleInvalidSession(place, loads) ==
    \E ok \in BOOLEAN :
        /\ nv_alive' = ok
        /\ nv_recreated' = IF ok THEN <<place, loads>> ELSE nv_recreated
        /\ IF ok THEN NavContinue ELSE NavReturn("False")

\* a command raised: TimeoutException (line 296), a WebDriverException
\* (lines 298-310) with or without the text of an invalid session, or
\* another exception (line 311)
NavRaised(alive, place, loads) ==
    \/ NavHandleInvalidSession(place, loads)
    \/ nv_alive' = alive /\ nv_recreated' = nv_recreated /\ NavContinue

\* line 183 with one iteration too many
NavForOneMore ==
    /\ nv_pc = "for"
    /\ IF nv_attempt <= nv_retry
       THEN /\ nv_attempt' = nv_attempt + 1
            /\ nv_pc' = "get"
            /\ nv_result' = nv_result
            /\ nv_verif' = FALSE
       ELSE /\ nv_attempt' = nv_attempt
            /\ nv_verif' = nv_verif
            /\ NavReturn("False")
    /\ nv_sim' = "none"
    /\ nv_refreshed' = FALSE
    /\ UNCHANGED <<nv_retry, nv_page, nv_alive, nv_polls, nv_loads, nv_recreated>>

\* line 183: the next iteration, or False after the last one (lines
\* 320-321)
NavFor ==
    /\ nv_pc = "for"
    /\ IF nv_attempt < nv_retry
       THEN /\ nv_attempt' = nv_attempt + 1
            /\ nv_pc' = "get"
            /\ nv_result' = nv_result
            /\ nv_verif' = FALSE
       ELSE /\ nv_attempt' = nv_attempt
            /\ nv_verif' = nv_verif
            /\ NavReturn("False")
    /\ nv_sim' = "none"
    /\ nv_refreshed' = FALSE
    /\ UNCHANGED <<nv_retry, nv_page, nv_alive, nv_polls, nv_loads, nv_recreated>>

\* line 199: driver.get(url) shows a page, or raises
NavGet ==
    /\ nv_pc = "get"
    /\ nv_loads' = nv_loads + 1
    /\ \/ /\ nv_alive
          /\ nv_page' \in PageKinds
          /\ nv_pc' = "simulate"
          /\ UNCHANGED <<nv_alive, nv_result, nv_recreated>>
       \/ /\ nv_page' \in {nv_page} \cup PageKinds
          /\ NavRaised(nv_alive, "get", nv_loads + 1)
    /\ UNCHANGED <<nv_retry, nv_attempt, nv_polls, nv_sim, nv_refreshed, nv_verif>>

\* line 202: the simulation, whose errors stay inside it
NavSimulate ==
    /\ nv_pc = "simulate"
    /\ \E ending \in SimulationEnds :
          /\ nv_sim' = ending
          /\ IF SimulateHumanBehaviorRaises(ending)
             THEN nv_alive' = nv_alive /\ NavContinue
             ELSE /\ nv_pc' = "check"
                  /\ UNCHANGED <<nv_alive, nv_result>>
    /\ UNCHANGED <<nv_retry, nv_attempt, nv_page, nv_polls, nv_loads, nv_refreshed,
                   nv_recreated, nv_verif>>

\* line 210: the first check for the verification page
NavCheck ==
    /\ nv_pc = "check"
    /\ nv_pc' = IF IsHumanVerificationPage(nv_page, nv_alive)
                THEN "poll" ELSE "error_check"
    /\ nv_polls' = 0
    /\ nv_verif' = IsHumanVerificationPage(nv_page, nv_alive)
    /\ UNCHANGED <<nv_retry, nv_attempt, nv_page, nv_alive, nv_result,
                   nv_loads, nv_sim, nv_refreshed, nv_recreated>>

\* lines 219-242: one iteration of the wait for the verification to end;
\* meanwhile the page may clear and the session may die.  When the page is
\* not seen as a verification page any more, a dead session is replaced
\* (lines 233-241).  Line 243: after the last iteration, the refresh.
NavPoll ==
    /\ nv_pc = "poll"
    /\ IF nv_polls < max_verification_wait \div verification_check_interval
       THEN /\ nv_polls' = nv_polls + 1
            /\ \E pg \in {nv_page, "calendar"}, alive \in {nv_alive, FALSE} :
                  /\ nv_page' = pg
                  /\ IF IsHumanVerificationPage(pg, alive)
                     THEN /\ nv_alive' = alive
                          /\ UNCHANGED <<nv_pc, nv_result, nv_recreated>>
                     ELSE IF IsDriverResponsive(alive)
                     THEN /\ nv_alive' = alive
                          /\ nv_pc' = "after_verification"
                          /\ UNCHANGED <<nv_result, nv_recreated>>
                     ELSE \E ok \in BOOLEAN :
                            /\ nv_alive' \in IF ok THEN BOOLEAN ELSE {FALSE}
                            /\ nv_recreated' = IF ok THEN <<"verification", nv_loads>>
                                                     ELSE nv_recreated
                            /\ IF ok
                               THEN /\ nv_pc' = "after_verification"
                                    /\ nv_result' = nv_result
                               ELSE NavReturn("False")
       ELSE /\ nv_pc' = "refresh"
            /\ UNCHANGED <<nv_polls, nv_page, nv_alive, nv_result, nv_recreated>>
    /\ UNCHANGED <<nv_retry, nv_attempt, nv_loads, nv_sim, nv_refreshed, nv_verif>>

\* lines 246-257: the refresh and the extended wait; an error is logged
NavRefresh ==
    /\ nv_pc = "refresh"
    /\ nv_page' \in {nv_page, "calendar"}
    /\ nv_alive' \in {nv_alive, FALSE}
    /\ nv_pc' = "after_verification"
    /\ nv_refreshed' = TRUE
    /\ UNCHANGED <<nv_retry, nv_attempt, nv_polls, nv_result, nv_loads, nv_sim,
                   nv_recreated, nv_verif>>

\* lines 260-266 with a page that counts as loaded once the wait is over
NavAfterVerificationAccepts ==
    /\ nv_pc = "after_verification"
    /\ IF IsDriverResponsive(nv_alive)
       THEN nv_alive' = nv_alive /\ nv_recreated' = nv_recreated /\ NavReturn("True")
       ELSE NavHandleInvalidSession("verification", nv_loads)
    /\ UNCHANGED <<nv_retry, nv_attempt, nv_page, nv_polls, nv_loads, nv_sim,
                   nv_refreshed, nv_verif>>

\* lines 260-266: a dead session is replaced, then the next iteration
NavAfterVerification ==
    /\ nv_pc = "after_verification"
    /\ IF IsDriverResponsive(nv_alive)
       THEN nv_alive' = nv_alive /\ nv_recreated' = nv_recreated /\ NavContinue
       ELSE NavHandleInvalidSession("verification", nv_loads)
    /\ UNCHANGED <<nv_retry, nv_attempt, nv_page, nv_polls, nv_loads, nv_sim,
                   nv_refreshed, nv_verif>>

\* lines 268-270: an error page ends the iteration; reading the title of a
\* dead session raises
NavErrorCheck ==
    /\ nv_pc = "error_check"
    /\ IF ~nv_alive THEN NavRaised(nv_alive, "title", nv_loads)
       ELSE IF nv_page = "error"
       THEN nv_alive' = nv_alive /\ nv_recreated' = nv_recreated /\ NavContinue
       ELSE /\ nv_pc' = "delayed_check"
            /\ UNCHANGED <<nv_alive, nv_result, nv_recreated>>
    /\ UNCHANGED <<nv_retry, nv_attempt, nv_page, nv_polls, nv_loads, nv_sim,
                   nv_refreshed, nv_verif>>

\* lines 293-294: the title is logged and True returned; reading the title
\* of a dead session raises
NavSuccess(alive) ==
    IF alive THEN nv_alive' = alive /\ nv_recreated' = nv_recreated /\ NavReturn("True")
    ELSE NavRaised(alive, "title", nv_loads)

\* lines 272-283: the second check; the verification page may have appeared
\* in the meantime
NavDelayedCheck ==
    /\ nv_pc = "delayed_check"
    /\ nv_page' \in {nv_page, "verification"}
    /\ nv_polls' = 0
    /\ IF IsHumanVerificationPage(nv_page', nv_alive)
       THEN /\ nv_pc' = "delayed_poll"
            /\ UNCHANGED <<nv_alive, nv_result, nv_recreated>>
       ELSE NavSuccess(nv_alive)
    /\ UNCHANGED <<nv_retry, nv_attempt, nv_loads, nv_sim, nv_refreshed, nv_verif>>

\* lines 283-294: one iteration of the delayed wait; when the page is not
\* seen as a verification page any more, or after the last iteration (line
\* 291), the page counts as loaded
NavDelayedPoll ==
    /\ nv_pc = "delayed_poll"
    /\ IF nv_polls < delayed_verification_wait \div verification_check_interval
       THEN /\ nv_polls' = nv_polls + 1
            /\ \E pg \in {nv_page, "calendar"}, alive \in {nv_alive, FALSE} :
                  /\ nv_page' = pg
                  /\ IF IsHumanVerificationPage(pg, alive)
                     THEN /\ nv_alive' = alive
                          /\ UNCHANGED <<nv_pc, nv_result, nv_recreated>>
                     ELSE NavSuccess(alive)
       ELSE /\ NavSuccess(nv_alive)
            /\ UNCHANGED <<nv_polls, nv_page>>
    /\ UNCHANGED <<nv_retry, nv_attempt, nv_loads, nv_sim, nv_refreshed, nv_verif>>


(***************************************************************************)
(* run_pipeline (main.py 91-219) and scrape_single_day (scraper.py         *)
(* 724-733).  The scraper of a run is the one of the range variables       *)
(* (driver, sessions, quit, attempt), and the CSV file is the one of the   *)
(* sink.                                                                   *)
(*   pl_pc          position: "daily_setup", "daily_navigate",             *)
(*                  "daily_parse", "daily_close" inside scrape_single_day, *)
(*                  "range_scrape" inside scrape_date_range, "scraped" at  *)
(*                  line 164, "returned"                                   *)
(*   pl_mode        mode, "daily" or "range"                               *)
(*   pl_scrape_only scrape_only                                            *)
(*   pl_target      target_date                                            *)
(*   pl_events      events                                                 *)
(*   pl_raised      whether scrape_single_day is about to leave by an      *)
(*                  exception                                              *)
(*   pl_result      the value returned: "none" while running, "True",      *)
(*                  "False"                                                *)
(* and, recorded for the properties only,                                  *)
(*   pl_before      the CSV file when the run began                        *)
(*   pl_quit_failed whether driver.quit() raised in the _close_driver of   *)
(*                  scrape_single_day                                      *)
(***************************************************************************)
VARIABLES pl_pc, pl_mode, pl_scrape_only, pl_target, pl_events, pl_raised,
          pl_result, pl_before, pl_quit_failed

pipelineVars ==
    <<pl_pc, pl_mode, pl_scrape_only, pl_target, pl_events, pl_raised,
      pl_result, pl_before, pl_quit_failed>>

\* the largest months_forward of the configuration, and the latest target day
MaxMonthsForward == 1
MaxTargetDay == 1

PipelineIdle ==
    /\ pl_pc = "idle"
    /\ pl_mode = "range"
    /\ pl_scrape_only = FALSE
    /\ pl_target = 0
    /\ pl_events = <<>>
    /\ pl_raised = FALSE
    /\ pl_result = "none"
    /\ pl_before = NoFile
    /\ pl_quit_failed = FALSE

\* a CSV file an earlier run left: the CPI record of the first day
SeedFile ==
    DataFile(ToCsv(ToFrame(
        <<[DateTime |-> 0, Event |-> TitleCpi, Currency |-> USD,
           Actual |-> <<"1">>]>>)))

\* lines 91-161: the components are constructed (the scraper holds no
\* driver) and the scrape is called: scrape_single_day(target_date) in daily
\* mode; in range mode scrape_date_range from now - 30 * months_back days to
\* now + 30 * months_forward days (lines 144-161), here with months_back = 0
\* and at midnight, on the file of an earlier run
PipelineStart ==
    /\ pl_mode \in {"daily", "range"}
    /\ pl_scrape_only \in BOOLEAN
    /\ IF pl_mode = "daily"
       THEN /\ pl_pc = "daily_setup"
            /\ pl_target \in 0..(timedelta(MaxTargetDay) + TicksPerDay - 1)
            /\ csv_file \in {NoFile, SeedFile}
            /\ RangeIdle
       ELSE /\ pl_pc = "range_scrape"
            /\ pl_target = 0
            /\ csv_file = SeedFile
            /\ \E months_forward \in 0..MaxMonthsForward :
                  RangeCall(0, timedelta(months_forward * DaysPerMonth))
    /\ sink_calls = <<>>
    /\ pl_before = csv_file
    /\ pl_events = <<>>
    /\ pl_raised = FALSE
    /\ pl_result = "none"
    /\ pl_quit_failed = FALSE

\* the range variables a daily run leaves alone
DailyFrame ==
    UNCHANGED <<rg_pc, rg_start, rg_end, ranges, range_index, all_events,
                successful_ranges, failed_ranges, current_date, range_events,
                used, returned, nav_failed, nav_loaded, rg_view, attempted>>

\* scrape_single_day, line 728: _setup_driver(); if it raises, the finally
\* clause of line 732 runs and the exception leaves the method
DailySetup ==
    /\ pl_pc = "daily_setup"
    /\ \E s \in SetupDriver(driver, sessions) :
          /\ driver' = s.driver
          /\ sessions' = s.sessions
          /\ created_in' = Created(sessions, s.sessions)
          /\ pl_raised' = s.raised
          /\ pl_pc' = IF s.raised THEN "daily_close" ELSE "daily_navigate"
    /\ attempt' = 0
    /\ DailyFrame
    /\ UNCHANGED <<quit, sinkVars, pl_mode, pl_scrape_only, pl_target,
                   pl_events, pl_result, pl_before, pl_quit_failed>>

\* _navigate_to_page returns False: _scrape_day returns [] (lines 993-994)
DailyNavigationFailed ==
    /\ pl_pc' = "daily_close"
    /\ pl_events' = <<>>
    /\ attempt' = attempt

\* the attempt is over without a result (lines 314-321)
DailyNextAttempt ==
    IF attempt + 1 < retry_attempts
    THEN /\ attempt' = attempt + 1
         /\ UNCHANGED <<pl_pc, pl_events>>
    ELSE DailyNavigationFailed

\* _scrape_day, line 993: the day page loads
DailyNavigateLoads ==
    /\ pl_pc = "daily_navigate"
    /\ pl_pc' = "daily_parse"
    /\ DailyFrame
    /\ UNCHANGED <<driver, sessions, quit, attempt, created_in, sinkVars,
                   pl_mode, pl_scrape_only, pl_target, pl_events, pl_raised,
                   pl_result, pl_before, pl_quit_failed>>

\* a timeout, an error page, a verification page that stays, or another
\* error, with the session alive
DailyNavigateFails ==
    /\ pl_pc = "daily_navigate"
    /\ DailyNextAttempt
    /\ DailyFrame
    /\ UNCHANGED <<driver, sessions, quit, created_in, sinkVars, pl_mode,
                   pl_scrape_only, pl_target, pl_raised, pl_result,
                   pl_before, pl_quit_failed>>

\* the session is lost and _handle_invalid_session (lines 1514-1536) closes
\* it and sets up another one; False if the setup raises
DailyNavigateSessionLost ==
    /\ pl_pc = "daily_navigate"
    /\ \E quit_raises \in BOOLEAN :
          \E s \in SetupDriver(CloseDriver(driver, quit, quit_raises).driver,
                               sessions) :
              /\ quit' = CloseDriver(driver, quit, quit_raises).quit
              /\ driver' = s.driver
              /\ sessions' = s.sessions
              /\ created_in' = Created(sessions, s.sessions)
              /\ IF s.raised THEN DailyNavigationFailed ELSE DailyNextAttempt
    /\ DailyFrame
    /\ UNCHANGED <<sinkVars, pl_mode, pl_scrape_only, pl_target, pl_raised,
                   pl_result, pl_before, pl_quit_failed>>

\* _scrape_day, lines 996-1044: the loaded page is extracted, unless the
\* driver does not respond (lines 1003-1005), and the save of lines
\* 1031-1042 is attempted
DailyScrapeDayPage ==
    /\ pl_pc = "daily_parse"
    /\ \E view \in {"unresponsive", "page"} :
          LET day_events ==
                  IF view = "page"
                  THEN ExtractDay(DayPage(DateOf(pl_target)), pl_target)
                  ELSE <<>>
          IN  pl_events' = day_events
    /\ csv_file' = ScraperSave(csv_file, sink_calls, pl_events').file
    /\ sink_calls' = ScraperSave(csv_file, sink_calls, pl_events').calls
    /\ pl_pc' = "daily_close"
    /\ DailyFrame
    /\ UNCHANGED <<driver, sessions, quit, attempt, created_in, pl_mode,
                   pl_scrape_only, pl_target, pl_raised, pl_result,
                   pl_before, pl_quit_failed>>

\* scrape_single_day, lines 731-733: the finally clause closes the driver;
\* then the events are returned to line 138 of run_pipeline, or the
\* exception of _setup_driver or of _close_driver reaches the handler of
\* line 217, which returns False
DailyClose ==
    /\ pl_pc = "daily_close"
    /\ \E quit_raises \in BOOLEAN :
          LET closed == CloseDriver(driver, quit, quit_raises)
          IN  /\ driver' = closed.driver
              /\ quit' = closed.quit
              /\ pl_quit_failed' = (quit_raises /\ driver # 0)
              /\ IF pl_raised \/ closed.raised
                 THEN /\ pl_pc' = "returned"
                      /\ pl_result' = "False"
                      /\ pl_events' = <<>>
                 ELSE /\ pl_pc' = "scraped"
                      /\ pl_result' = pl_result
                      /\ pl_events' = pl_events
    /\ DailyFrame
    /\ UNCHANGED <<sessions, attempt, created_in, sinkVars, pl_mode,
                   pl_scrape_only, pl_target, pl_raised, pl_before>>

\* line 161: scrape_date_range returns its events (it raises nothing, lines
\* 799-804)
RangeScraped ==
    /\ pl_pc = "range_scrape"
    /\ rg_pc = "done"
    /\ pl_events' = all_events
    /\ pl_pc' = "scraped"
    /\ UNCHANGED <<rangeVars, sinkVars, pl_mode, pl_scrape_only, pl_target,
                   pl_raised, pl_result, pl_before, pl_quit_failed>>

\* run_pipeline without the return of lines 169-174
SkipsExportNever(scrape_only) == FALSE

\* line 169: `if scrape_only:`
SkipsExport(scrape_only) == scrape_only

\* lines 164-174: with scrape_only the events are mapped and counted, and
\* True is returned
PipelineScrapeOnly ==
    /\ pl_pc = "scraped"
    /\ SkipsExport(pl_scrape_only)
    /\ pl_result' = "True"
    /\ pl_pc' = "returned"
    /\ UNCHANGED <<rangeVars, sinkVars, pl_mode, pl_scrape_only, pl_target,
                   pl_events, pl_raised, pl_before, pl_quit_failed>>

\* lines 177-208: the events are mapped; in daily mode they are appended
\* (line 184), in range mode only a message is logged (line 191);
\* get_file_info and get_existing_events raise nothing, and True is returned
\* whatever append_events returned
PipelineSave ==
    /\ pl_pc = "scraped"
    /\ ~SkipsExport(pl_scrape_only)
    /\ pl_events # <<>>
    /\ IF pl_mode = "daily"
       THEN LET res == AppendEvents(csv_file, SinkEvents(pl_events))
            IN  /\ csv_file' = res.file
                /\ sink_calls' = Append(sink_calls,
                      [events |-> SinkEvents(pl_events), ok |-> res.ok,
                       before |-> csv_file])
       ELSE UNCHANGED sinkVars
    /\ pl_result' = "True"
    /\ pl_pc' = "returned"
    /\ UNCHANGED <<rangeVars, pl_mode, pl_scrape_only, pl_target, pl_events,
                   pl_raised, pl_before, pl_quit_failed>>

\* lines 164-167 and 213-215: no events, nothing to save, True
PipelineNoEvents ==
    /\ pl_pc = "scraped"
    /\ ~SkipsExport(pl_scrape_only)
    /\ pl_events = <<>>
    /\ pl_result' = "True"
    /\ pl_pc' = "returned"
    /\ UNCHANGED <<rangeVars, sinkVars, pl_mode, pl_scrape_only, pl_target,
                   pl_events, pl_raised, pl_before, pl_quit_failed>>

(***************************************************************************)
(* SymbolMapper (symbol_mapper.py).  A currency and a trading pair are     *)
(* texts; a mapping table (a dict) is a function from the currencies it    *)
(* has to lists of pairs; an event (a dict) is a function from its keys.   *)
(*   mp_pc      "ready" between calls, "for" inside map_events_to_pairs,   *)
(*              "returned" after it                                        *)
(*   auto_mapping, custom_overrides   the two tables of the mapper         *)
(*   mp_events  the argument events                                        *)
(*   mapped_events  the list built by the loop of lines 94-102             *)
(*   mp_edits   the number of add/remove calls so far                      *)
(* and, recorded for the properties only,                                  *)
(*   mp_pairs   the list get_affected_pairs returned for each event        *)
(*   mp_got     the direct calls of get_affected_pairs: the currency, the  *)
(*              list returned and that list after the caller appended a    *)
(*              symbol to it                                               *)
(***************************************************************************)
VARIABLES mp_pc, auto_mapping, custom_overrides, mp_events, mapped_events,
          mp_edits, mp_pairs, mp_got

mapVars ==
    <<mp_pc, auto_mapping, custom_overrides, mp_events, mapped_events,
      mp_edits, mp_pairs, mp_got>>

\* the longest list of events mapped, and the calls of add_custom_mapping,
\* remove_custom_mapping and get_affected_pairs before it
MaxMapEvents == 2
MaxEdits == 1

EUR == <<"E", "U", "R">>

GBP == <<"G", "B", "P">>

JPY == <<"J", "P", "Y">>

CHF == <<"C", "H", "F">>

AUD == <<"A", "U", "D">>

NZD == <<"N", "Z", "D">>

CAD == <<"C", "A", "D">>

\* _load_default_mappings (lines 43-56): the table of line 45
DefaultAutoMapping ==
    USD :> <<EUR \o USD, GBP \o USD, USD \o JPY, USD \o CHF, AUD \o USD,
           NZD \o USD, USD \o CAD>> @@
    EUR :> <<EUR \o USD, EUR \o GBP, EUR \o JPY, EUR \o CHF, EUR \o AUD>> @@
    GBP :> <<GBP \o USD, EUR \o GBP, GBP \o JPY, GBP \o CHF, GBP \o AUD>> @@
    JPY :> <<USD \o JPY, EUR \o JPY, GBP \o JPY, AUD \o JPY, NZD \o JPY>> @@
    CHF :> <<USD \o CHF, EUR \o CHF, GBP \o CHF, CHF \o JPY>> @@
    AUD :> <<AUD \o USD, EUR \o AUD, GBP \o AUD, AUD \o JPY, AUD \o NZD>> @@
    NZD :> <<NZD \o USD, NZD \o JPY, AUD \o NZD>> @@
    CAD :> <<USD \o CAD, CAD \o JPY>>

\* the empty dict
EmptyMapping == [c \in {} |-> <<>>]

\* the lists of pairs a configuration file or add_custom_mapping gives a
\* currency: symbols are not empty
PairLists == {<<>>, <<EUR \o USD>>, <<USD \o JPY, EUR \o USD>>}

\* the tables a configuration file can hold for the currencies of S
Mappings(S) == UNION {[T -> PairLists] : T \in SUBSET S}

\* the events mapped: with a currency of the tables, with another currency,
\* with an empty currency and without the key Currency
MapEventPool ==
    {[Event |-> TitleCpi, Currency |-> c] : c \in {USD, EUR, CAD, <<>>}}
        \cup {[Event |-> TitleCpi]}

\* ', '.join(texts) (line 100)
RECURSIVE JoinComma(_)
JoinComma(texts) ==
    IF texts = <<>> THEN <<>>
    ELSE IF Len(texts) = 1 THEN texts[1]
    ELSE texts[1] \o <<",", " ">> \o JoinComma(Tail(texts))

\* get_affected_pairs with the auto mapping consulted first
GetAffectedPairsAutoFirst(custom, auto, currency) ==
    IF currency \in DOMAIN auto THEN auto[currency]
    ELSE IF currency \in DOMAIN custom THEN custom[currency]
    ELSE <<>>

\* get_affected_pairs (lines 58-80) on the tables custom and auto
GetAffectedPairs(custom, auto, currency) ==
    IF currency \in DOMAIN custom THEN custom[currency]
    ELSE IF currency \in DOMAIN auto THEN auto[currency]
    ELSE <<>>

\* lines 99-100: the copy of the event with the field AffectedPairs
WithAffectedPairs(event, affected_pairs) ==
    [key \in DOMAIN event \cup {"AffectedPairs"} |->
        IF key = "AffectedPairs"
        THEN IF affected_pairs # <<>> THEN JoinComma(affected_pairs) ELSE NA
        ELSE event[key]]

MapIdle ==
    /\ mp_pc = "idle"
    /\ auto_mapping = EmptyMapping
    /\ custom_overrides = EmptyMapping
    /\ mp_events = <<>>
    /\ mapped_events = <<>>
    /\ mp_edits = 0
    /\ mp_pairs = <<>>
    /\ mp_got = <<>>

\* __init__ and _load_config (lines 15-41): the tables of the configuration
\* file, or the default tables if the file cannot be read
MapStart ==
    /\ mp_pc = "ready"
    /\ \/ /\ auto_mapping \in Mappings({USD, EUR})
          /\ custom_overrides \in Mappings({USD})
       \/ /\ auto_mapping = DefaultAutoMapping
          /\ custom_overrides = EmptyMapping
    /\ mp_events = <<>>
    /\ mapped_events = <<>>
    /\ mp_edits = 0
    /\ mp_pairs = <<>>
    /\ mp_got = <<>>

\* add_custom_mapping (lines 107-116)
AddCustomMapping ==
    /\ mp_pc = "ready"
    /\ mp_edits < MaxEdits
    /\ \E currency \in {USD, CAD}, pairs \in PairLists :
          custom_overrides' =
              [c \in DOMAIN custom_overrides \cup {currency} |->
                  IF c = currency THEN pairs ELSE custom_overrides[c]]
    /\ mp_edits' = mp_edits + 1
    /\ UNCHANGED <<mp_pc, auto_mapping, mp_events, mapped_events, mp_pairs,
                   mp_got>>

\* remove_custom_mapping (lines 118-129)
RemoveCustomMapping ==
    /\ mp_pc = "ready"
    /\ mp_edits < MaxEdits
    /\ \E currency \in {USD, CAD} :
          custom_overrides' =
              IF currency \in DOMAIN custom_overrides
              THEN [c \in DOMAIN custom_overrides \ {currency} |->
                       custom_overrides[c]]
              ELSE custom_overrides
    /\ mp_edits' = mp_edits + 1
    /\ UNCHANGED <<mp_pc, auto_mapping, mp_events, mapped_events, mp_pairs,
                   mp_got>>

\* map_events_to_pairs(events) is called (lines 82-92)
MapCall ==
    /\ mp_pc = "ready"
    /\ mp_events' \in SeqsUpTo(MapEventPool, MaxMapEvents)
    /\ mapped_events' = <<>>
    /\ mp_pairs' = <<>>
    /\ mp_pc' = "for"
    /\ UNCHANGED <<auto_mapping, custom_overrides, mp_edits, mp_got>>

\* lines 94-102: one iteration of the loop
MapEvent ==
    /\ mp_pc = "for"
    /\ Len(mapped_events) < Len(mp_events)
    /\ LET event == mp_events[Len(mapped_events) + 1]
           currency == Get(event, "Currency", <<>>)
           affected_pairs ==
               GetAffectedPairs(custom_overrides, auto_mapping, currency)
       IN  /\ mapped_events' =
                  Append(mapped_events, WithAffectedPairs(event, affected_pairs))
           /\ mp_pairs' = Append(mp_pairs, affected_pairs)
    /\ UNCHANGED <<mp_pc, auto_mapping, custom_overrides, mp_events, mp_edits,
                   mp_got>>

\* lines 104-105: return mapped_events
MapReturn ==
    /\ mp_pc = "for"
    /\ Len(mapped_events) = Len(mp_events)
    /\ mp_pc' = "returned"
    /\ UNCHANGED <<auto_mapping, custom_overrides, mp_events, mapped_events,
                   mp_edits, mp_pairs, mp_got>>

\* get_affected_pairs handing out the list the table holds
ReturnedPairsShared(custom, auto, currency) ==
    [pairs |-> GetAffectedPairs(custom, auto, currency),
     shares |-> IF currency \in DOMAIN custom THEN "custom"
                ELSE IF currency \in DOMAIN auto THEN "auto"
                ELSE "none"]

\* the list object get_affected_pairs returns: .copy() of the table's list
\* (lines 71 and 76) or a new empty list (line 80); shares names the table
\* whose list it is
ReturnedPairs(custom, auto, currency) ==
    [pairs |-> GetAffectedPairs(custom, auto, currency), shares |-> "none"]

\* a caller of get_affected_pairs (lines 58-80) appends a symbol to the list
\* it was given
GetPairsAndChange ==
    /\ mp_pc = "ready"
    /\ mp_edits < MaxEdits
    /\ mp_edits' = mp_edits + 1
    /\ \E currency \in {USD, CAD} :
          LET r == ReturnedPairs(custom_overrides, auto_mapping, currency)
              changed == Append(r.pairs, GBP \o USD)
          IN  /\ mp_got' = Append(mp_got, [currency |-> currency,
                                          returned |-> r.pairs,
                                          changed |-> changed])
              /\ custom_overrides' =
                    IF r.shares = "custom"
                    THEN [custom_overrides EXCEPT ![currency] = changed]
                    ELSE custom_overrides
              /\ auto_mapping' =
                    IF r.shares = "auto"
                    THEN [auto_mapping EXCEPT ![currency] = changed]
                    ELSE auto_mapping
    /\ UNCHANGED <<mp_pc, mp_events, mapped_events, mp_pairs>>

(***************************************************************************)
(* NewsScheduler (scheduler.py) while its job runs the pipeline.           *)
(*   sch_pc     "job" while _scheduled_job runs run_pipeline (lines 50-67),*)
(*              "waiting" in the loop of lines 93-99, "stopped" after it   *)
(*   running    self.running                                               *)
(* and, recorded for the properties only,                                  *)
(*   signalled  whether SIGINT or SIGTERM has been delivered               *)
(*   interrupted  the window that was in progress when the first signal    *)
(*                was delivered, 0 if there was none                       *)
(*   started_after  the windows scrape_date_range entered after that       *)
(***************************************************************************)
VARIABLES sch_pc, running, signalled, interrupted, started_after

schedVars == <<sch_pc, running, signalled, interrupted, started_after>>

\* a window of scrape_date_range is being scraped (lines 755-772)
WindowInProgress ==
    rg_pc \in {"navigate_range", "table", "while", "navigate_day", "parse_day",
               "collect"}

SchedIdle ==
    /\ sch_pc = "idle"
    /\ running = FALSE
    /\ signalled = FALSE
    /\ interrupted = 0
    /\ started_after = {}

\* the job has been started: by schedule.run_pending() in start_scheduler
\* (line 94, after self.running = True of line 90) or by run_once_now (line
\* 120, self.running still False); it calls run_pipeline(config,
\* scrape_only=False), whose mode is 'range' (main.py line 91)
SchedStart ==
    /\ sch_pc = "job"
    /\ running \in BOOLEAN
    /\ signalled = FALSE
    /\ interrupted = 0
    /\ started_after = {}
    /\ pl_mode = "range"
    /\ pl_scrape_only = FALSE
    /\ PipelineStart

\* _signal_handler (lines 33-37), installed for SIGINT and SIGTERM (lines
\* 30-31): the signal is logged and self.running cleared
SignalHandler ==
    /\ sch_pc \in {"job", "waiting"}
    /\ running' = FALSE
    /\ signalled' = TRUE
    /\ interrupted' = IF ~signalled /\ WindowInProgress THEN range_index
                      ELSE interrupted
    /\ UNCHANGED <<sch_pc, started_after>>

\* a step of run_pipeline inside the job; nothing in it reads self.running
JobStep(step) ==
    /\ sch_pc = "job"
    /\ step
    /\ started_after' =
          IF signalled /\ rg_pc = "for" /\ rg_pc' \in {"navigate_range", "while"}
          THEN started_after \cup {range_index}
          ELSE started_after
    /\ UNCHANGED <<sch_pc, running, signalled, interrupted>>

\* lines 56-67: run_pipeline has returned and the job ends; the loop of
\* lines 93-99 goes on while self.running
JobReturns ==
    /\ sch_pc = "job"
    /\ pl_pc = "returned"
    /\ sch_pc' = IF running THEN "waiting" ELSE "stopped"
    /\ UNCHANGED <<running, signalled, interrupted, started_after>>

\* lines 93-111: the loop sees self.running cleared and the scheduler ends
SchedulerStops ==
    /\ sch_pc = "waiting"
    /\ ~running
    /\ sch_pc' = "stopped"
    /\ UNCHANGED <<running, signalled, interrupted, started_after>>

(***************************************************************************)
(* EconomicDataCleaner (data_cleaner.py).                                  *)
(* A frame is a sequence of rows [DateTime, Event, Country, Impact,        *)
(* Currency]; a cell is a text, or NaN where the frame has no value.       *)
(*   cl_pc      position in the call: "copy", "impact", "countries",       *)
(*              "dedup", "returned"                                        *)
(*   cl_call    the method called: clean_impact_levels, clean_countries    *)
(*              (which work on the caller's frame) or clean_data (which    *)
(*              works on a copy)                                           *)
(*   cl_input   the caller's frame                                         *)
(*   cl_frame   the frame being cleaned, at the end the frame returned     *)
(* and, recorded for the properties only,                                  *)
(*   cl_before  the caller's frame as it was when the method was called    *)
(*   cl_returned  the frames the calls of clean_data returned so far       *)
(***************************************************************************)
VARIABLES cl_pc, cl_call, cl_input, cl_frame, cl_before, cl_returned

cleanVars == <<cl_pc, cl_call, cl_input, cl_frame, cl_before, cl_returned>>

\* the largest number of rows of a frame
MaxCleanRows == 2

\* the largest number of calls of clean_data in a row
MaxCleanCalls == 2

\* lines 19-27
impact_mapping ==
    { <<<<"I", "c", "o", "n", "-", "-", "F", "f", "-", "I", "m", "p", "a", "c", "t", "-", "R", "e", "d">>, <<"H", "i", "g", "h">>>>,
      <<<<"I", "c", "o", "n", "-", "-", "F", "f", "-", "I", "m", "p", "a", "c", "t", "-", "O", "r", "a">>, <<"M", "e", "d", "i", "u", "m">>>>,
      <<<<"I", "c", "o", "n", "-", "-", "F", "f", "-", "I", "m", "p", "a", "c", "t", "-", "Y", "e", "l">>, <<"L", "o", "w">>>>,
      <<<<"I", "c", "o", "n", "-", "-", "F", "f", "-", "I", "m", "p", "a", "c", "t", "-", "G", "r", "a">>, <<"L", "o", "w">>>>,
      <<<<"H", "i", "g", "h">>, <<"H", "i", "g", "h">>>>,
      <<<<"M", "e", "d", "i", "u", "m">>, <<"M", "e", "d", "i", "u", "m">>>>,
      <<<<"L", "o", "w">>, <<"L", "o", "w">>>> }

\* lines 30-58
country_mapping ==
    { <<<<"U", "S", "D">>, <<"U", "n", "i", "t", "e", "d", " ", "S", "t", "a", "t", "e", "s">>>>,
      <<<<"E", "U", "R">>, <<"E", "u", "r", "o", "z", "o", "n", "e">>>>,
      <<<<"G", "B", "P">>, <<"U", "n", "i", "t", "e", "d", " ", "K", "i", "n", "g", "d", "o", "m">>>>,
      <<<<"J", "P", "Y">>, <<"J", "a", "p", "a", "n">>>>,
      <<<<"C", "H", "F">>, <<"S", "w", "i", "t", "z", "e", "r", "l", "a", "n", "d">>>>,
      <<<<"A", "U", "D">>, <<"A", "u", "s", "t", "r", "a", "l", "i", "a">>>>,
      <<<<"N", "Z", "D">>, <<"N", "e", "w", " ", "Z", "e", "a", "l", "a", "n", "d">>>>,
      <<<<"C", "A", "D">>, <<"C", "a", "n", "a", "d", "a">>>>,
      <<<<"C", "N", "Y">>, <<"C", "h", "i", "n", "a">>>>,
      <<<<"C", "H">>, <<"S", "w", "i", "t", "z", "e", "r", "l", "a", "n", "d">>>>,
      <<<<"U", "S">>, <<"U", "n", "i", "t", "e", "d", " ", "S", "t", "a", "t", "e", "s">>>>,
      <<<<"G", "B">>, <<"U", "n", "i", "t", "e", "d", " ", "K", "i", "n", "g", "d", "o", "m">>>>,
      <<<<"U", "K">>, <<"U", "n", "i", "t", "e", "d", " ", "K", "i", "n", "g", "d", "o", "m">>>>,
      <<<<"J", "P">>, <<"J", "a", "p", "a", "n">>>>,
      <<<<"A", "U">>, <<"A", "u", "s", "t", "r", "a", "l", "i", "a">>>>,
      <<<<"N", "Z">>, <<"N", "e", "w", " ", "Z", "e", "a", "l", "a", "n", "d">>>>,
      <<<<"C", "A">>, <<"C", "a", "n", "a", "d", "a">>>>,
      <<<<"C", "N">>, <<"C", "h", "i", "n", "a">>>>,
      <<<<"F", "R">>, <<"F", "r", "a", "n", "c", "e">>>>,
      <<<<"D", "E">>, <<"G", "e", "r", "m", "a", "n", "y">>>>,
      <<<<"I", "T">>, <<"I", "t", "a", "l", "y">>>>,
      <<<<"E", "S">>, <<"S", "p", "a", "i", "n">>>>,
      <<<<"R", "U">>, <<"R", "u", "s", "s", "i", "a">>>>,
      <<<<"B", "R">>, <<"B", "r", "a", "z", "i", "l">>>>,
      <<<<"I", "N">>, <<"I", "n", "d", "i", "a">>>>,
      <<<<"M", "X">>, <<"M", "e", "x", "i", "c", "o">>>>,
      <<<<"Z", "A">>, <<"S", "o", "u", "t", "h", " ", "A", "f", "r", "i", "c", "a">>>> }

\* lines 61-80, in the order of the dictionary
event_country_keywords ==
    << <<<<"U", "n", "i", "t", "e", "d", " ", "S", "t", "a", "t", "e", "s">>, {<<"U", "S", " ">>, <<"U", "n", "i", "t", "e", "d", " ", "S", "t", "a", "t", "e", "s">>, <<"F", "e", "d", "e", "r", "a", "l", " ", "R", "e", "s", "e", "r", "v", "e">>, <<"F", "O", "M", "C">>, <<"F", "e", "d">>, <<"T", "r", "e", "a", "s", "u", "r", "y">>, <<"B", "u", "r", "e", "a", "u">>, <<"D", "e", "p", "a", "r", "t", "m", "e", "n", "t", " ", "o", "f">>}>>,
       <<<<"E", "u", "r", "o", "z", "o", "n", "e">>, {<<"E", "Z", " ">>, <<"E", "u", "r", "o", "z", "o", "n", "e">>, <<"E", "u", "r", "o", "p", "e", "a", "n", " ", "C", "e", "n", "t", "r", "a", "l", " ", "B", "a", "n", "k">>, <<"E", "C", "B">>, <<"E", "u", "r", "o", "p", "e", "a", "n">>, <<"E", "u", "r", "o">>}>>,
       <<<<"U", "n", "i", "t", "e", "d", " ", "K", "i", "n", "g", "d", "o", "m">>, {<<"U", "K", " ">>, <<"U", "n", "i", "t", "e", "d", " ", "K", "i", "n", "g", "d", "o", "m">>, <<"B", "a", "n", "k", " ", "o", "f", " ", "E", "n", "g", "l", "a", "n", "d">>, <<"B", "O", "E">>, <<"B", "r", "i", "t", "i", "s", "h">>, <<"M", "P", "C">>}>>,
       <<<<"J", "a", "p", "a", "n">>, {<<"J", "a", "p", "a", "n">>, <<"B", "a", "n", "k", " ", "o", "f", " ", "J", "a", "p", "a", "n">>, <<"B", "O", "J">>, <<"J", "a", "p", "a", "n", "e", "s", "e">>}>>,
       <<<<"S", "w", "i", "t", "z", "e", "r", "l", "a", "n", "d">>, {<<"C", "H", " ">>, <<"S", "w", "i", "t", "z", "e", "r", "l", "a", "n", "d">>, <<"S", "w", "i", "s", "s", " ", "N", "a", "t", "i", "o", "n", "a", "l", " ", "B", "a", "n", "k">>, <<"S", "N", "B">>, <<"S", "w", "i", "s", "s">>}>>,
       <<<<"A", "u", "s", "t", "r", "a", "l", "i", "a">>, {<<"A", "U", " ">>, <<"A", "u", "s", "t", "r", "a", "l", "i", "a">>, <<"R", "e", "s", "e", "r", "v", "e", " ", "B", "a", "n", "k", " ", "o", "f", " ", "A", "u", "s", "t", "r", "a", "l", "i", "a">>, <<"R", "B", "A">>, <<"A", "u", "s", "t", "r", "a", "l", "i", "a", "n">>}>>,
       <<<<"N", "e", "w", " ", "Z", "e", "a", "l", "a", "n", "d">>, {<<"N", "Z", " ">>, <<"N", "e", "w", " ", "Z", "e", "a", "l", "a", "n", "d">>, <<"R", "e", "s", "e", "r", "v", "e", " ", "B", "a", "n", "k", " ", "o", "f", " ", "N", "e", "w", " ", "Z", "e", "a", "l", "a", "n", "d">>, <<"R", "B", "N", "Z">>}>>,
       <<<<"C", "a", "n", "a", "d", "a">>, {<<"C", "A", " ">>, <<"C", "a", "n", "a", "d", "a">>, <<"B", "a", "n", "k", " ", "o", "f", " ", "C", "a", "n", "a", "d", "a">>, <<"B", "O", "C">>, <<"C", "a", "n", "a", "d", "i", "a", "n">>}>>,
       <<<<"C", "h", "i", "n", "a">>, {<<"C", "N", " ">>, <<"C", "h", "i", "n", "a">>, <<"P", "e", "o", "p", "l", "e", "'", "s", " ", "B", "a", "n", "k", " ", "o", "f", " ", "C", "h", "i", "n", "a">>, <<"P", "B", "O", "C">>, <<"C", "h", "i", "n", "e", "s", "e">>}>>,
       <<<<"F", "r", "a", "n", "c", "e">>, {<<"F", "R", " ">>, <<"F", "r", "a", "n", "c", "e">>, <<"F", "r", "e", "n", "c", "h">>}>>,
       <<<<"G", "e", "r", "m", "a", "n", "y">>, {<<"D", "E", " ">>, <<"G", "e", "r", "m", "a", "n", "y">>, <<"G", "e", "r", "m", "a", "n">>, <<"B", "u", "n", "d", "e", "s", "b", "a", "n", "k">>}>>,
       <<<<"I", "t", "a", "l", "y">>, {<<"I", "T", " ">>, <<"I", "t", "a", "l", "y">>, <<"I", "t", "a", "l", "i", "a", "n">>}>>,
       <<<<"S", "p", "a", "i", "n">>, {<<"E", "S", " ">>, <<"S", "p", "a", "i", "n">>, <<"S", "p", "a", "n", "i", "s", "h">>}>>,
       <<<<"R", "u", "s", "s", "i", "a">>, {<<"R", "U", " ">>, <<"R", "u", "s", "s", "i", "a">>, <<"R", "u", "s", "s", "i", "a", "n">>}>>,
       <<<<"B", "r", "a", "z", "i", "l">>, {<<"B", "R", " ">>, <<"B", "r", "a", "z", "i", "l">>, <<"B", "r", "a", "z", "i", "l", "i", "a", "n">>}>>,
       <<<<"I", "n", "d", "i", "a">>, {<<"I", "N", " ">>, <<"I", "n", "d", "i", "a">>, <<"I", "n", "d", "i", "a", "n">>, <<"R", "e", "s", "e", "r", "v", "e", " ", "B", "a", "n", "k", " ", "o", "f", " ", "I", "n", "d", "i", "a">>, <<"R", "B", "I">>}>>,
       <<<<"M", "e", "x", "i", "c", "o">>, {<<"M", "X", " ">>, <<"M", "e", "x", "i", "c", "o">>, <<"M", "e", "x", "i", "c", "a", "n">>}>>,
       <<<<"S", "o", "u", "t", "h", " ", "A", "f", "r", "i", "c", "a">>, {<<"Z", "A", " ">>, <<"S", "o", "u", "t", "h", " ", "A", "f", "r", "i", "c", "a">>, <<"S", "o", "u", "t", "h", " ", "A", "f", "r", "i", "c", "a", "n">>}>> >>

\* lines 154-173
country_to_currency ==
    { <<<<"U", "n", "i", "t", "e", "d", " ", "S", "t", "a", "t", "e", "s">>, <<"U", "S", "D">>>>,
      <<<<"E", "u", "r", "o", "z", "o", "n", "e">>, <<"E", "U", "R">>>>,
      <<<<"U", "n", "i", "t", "e", "d", " ", "K", "i", "n", "g", "d", "o", "m">>, <<"G", "B", "P">>>>,
      <<<<"J", "a", "p", "a", "n">>, <<"J", "P", "Y">>>>,
      <<<<"S", "w", "i", "t", "z", "e", "r", "l", "a", "n", "d">>, <<"C", "H", "F">>>>,
      <<<<"A", "u", "s", "t", "r", "a", "l", "i", "a">>, <<"A", "U", "D">>>>,
      <<<<"N", "e", "w", " ", "Z", "e", "a", "l", "a", "n", "d">>, <<"N", "Z", "D">>>>,
      <<<<"C", "a", "n", "a", "d", "a">>, <<"C", "A", "D">>>>,
      <<<<"C", "h", "i", "n", "a">>, <<"C", "N", "Y">>>>,
      <<<<"F", "r", "a", "n", "c", "e">>, <<"E", "U", "R">>>>,
      <<<<"G", "e", "r", "m", "a", "n", "y">>, <<"E", "U", "R">>>>,
      <<<<"I", "t", "a", "l", "y">>, <<"E", "U", "R">>>>,
      <<<<"S", "p", "a", "i", "n">>, <<"E", "U", "R">>>>,
      <<<<"R", "u", "s", "s", "i", "a">>, <<"R", "U", "B">>>>,
      <<<<"B", "r", "a", "z", "i", "l">>, <<"B", "R", "L">>>>,
      <<<<"I", "n", "d", "i", "a">>, <<"I", "N", "R">>>>,
      <<<<"M", "e", "x", "i", "c", "o">>, <<"M", "X", "N">>>>,
      <<<<"S", "o", "u", "t", "h", " ", "A", "f", "r", "i", "c", "a">>, <<"Z", "A", "R">>>> }

TokOra == <<"I", "c", "o", "n", "-", "-", "F", "f", "-", "I", "m", "p", "a", "c", "t", "-", "O", "r", "a">>

TokYel == <<"I", "c", "o", "n", "-", "-", "F", "f", "-", "I", "m", "p", "a", "c", "t", "-", "Y", "e", "l">>

UnitedStates == <<"U", "n", "i", "t", "e", "d", " ", "S", "t", "a", "t", "e", "s">>

TitleEcbRate == <<"E", "C", "B", " ", "R", "a", "t", "e">>

\* str(cell) of lines 110-112 and 176-178: a missing cell reads 'nan'
StrCell(cell) == IF cell = NaN THEN <<"n", "a", "n">> ELSE cell

HasKey(tbl, key) == \E p \in tbl : p[1] = key

\* line 91: df['Impact'].map(self.impact_mapping).fillna(df['Impact']), for
\* one cell: a value that is not a key of the mapping, or a missing one,
\* stays as it is
MapImpact(cell) == Lookup(impact_mapping, cell, cell)

\* clean_impact_levels (lines 82-97)
CleanImpactLevelsOf(df) ==
    [k \in 1..Len(df) |-> [df[k] EXCEPT !.Impact = MapImpact(df[k].Impact)]]

NoCountry == <<>>

\* _detect_country_from_event (lines 138-147): the first country of the
\* dictionary one of whose keywords is in the title, letter case aside
DetectCountryFromEvent(event_name) ==
    LET event_name_upper == Upper(event_name)
        hits == SelectSeq(event_country_keywords,
                    LAMBDA p : \E keyword \in p[2] :
                        Contains(event_name_upper, Upper(keyword)))
    IN  IF hits # <<>> THEN hits[1][1] ELSE NoCountry

\* lines 109-127 with the currency table consulted before the keywords
CleanCountryRowCurrencyFirst(row) ==
    LET event_name == StrCell(row.Event)
        currency == StrCell(row.Currency)
        current_country == StrCell(row.Country)
        detected_country == DetectCountryFromEvent(event_name)
    IN  IF current_country # Unknown THEN row
        ELSE IF HasKey(country_mapping, currency)
        THEN [row EXCEPT !.Country = Lookup(country_mapping, currency, Unknown)]
        ELSE IF detected_country # NoCountry
        THEN [row EXCEPT !.Country = detected_country]
        ELSE row

\* lines 109-127: one iteration of the loop of clean_countries
CleanCountryRow(row) ==
    LET event_name == StrCell(row.Event)
        currency == StrCell(row.Currency)
        current_country == StrCell(row.Country)
        detected_country == DetectCountryFromEvent(event_name)
    IN  IF current_country # Unknown THEN row
        ELSE IF detected_country # NoCountry
        THEN [row EXCEPT !.Country = detected_country]
        ELSE IF HasKey(country_mapping, currency)
        THEN [row EXCEPT !.Country = Lookup(country_mapping, currency, Unknown)]
        ELSE row

\* lines 175-185: one iteration of the loop of
\* _fix_currency_inconsistencies
FixCurrencyRow(row) ==
    LET country == StrCell(row.Country)
        currency == StrCell(row.Currency)
    IN  IF HasKey(country_to_currency, country)
           /\ currency # Lookup(country_to_currency, country, <<>>)
        THEN [row EXCEPT !.Currency = Lookup(country_to_currency, country, <<>>)]
        ELSE row

\* clean_countries with line 130 ahead of the loop over the rows
CleanCountriesOfFixFirst(df) ==
    LET fixed == [k \in 1..Len(df) |-> FixCurrencyRow(df[k])]
    IN  [k \in 1..Len(fixed) |-> CleanCountryRow(fixed[k])]

\* clean_countries (lines 99-136): the loop over the rows, then
\* _fix_currency_inconsistencies (line 130) over the rows it left
CleanCountriesOf(df) ==
    LET fixed == [k \in 1..Len(df) |-> CleanCountryRow(df[k])]
    IN  [k \in 1..Len(fixed) |-> FixCurrencyRow(fixed[k])]

CleanKey(row) == <<row.DateTime, row.Event, row.Currency>>

\* line 202: drop_duplicates(subset=['DateTime', 'Event', 'Currency']), which
\* keeps the first row of each key
RECURSIVE CleanDropDuplicates(_)
CleanDropDuplicates(df) ==
    IF df = <<>> THEN <<>>
    ELSE LET rest == CleanDropDuplicates(SubSeq(df, 1, Len(df) - 1))
             last == df[Len(df)]
         IN  IF \E k \in 1..Len(rest) : CleanKey(rest[k]) = CleanKey(last)
             THEN rest
             ELSE Append(rest, last)

\* the rows of the frames: every title, country and currency with one
\* impact, and every impact on one event
CleanTitles == {TitleCpi, TitleEcbRate}

CleanCountryCells == {Unknown, UnitedStates, NaN}

CleanCurrencyCells == {USD, EUR, <<>>, NaN}

CleanImpactCells ==
    {TokRed, TokOra, TokYel, TokGra, TokOraLower, Medium, <<>>, NaN}

CleanRows ==
    [DateTime : {0}, Event : CleanTitles, Country : CleanCountryCells,
     Impact : {High}, Currency : CleanCurrencyCells]
      \cup [DateTime : {0}, Event : {TitleCpi}, Country : {UnitedStates},
            Impact : CleanImpactCells, Currency : {USD}]

CleanCalls == {"clean_impact_levels", "clean_countries", "clean_data"}

CleanIdle ==
    /\ cl_pc = "idle"
    /\ cl_call = "none"
    /\ cl_input = <<>>
    /\ cl_frame = <<>>
    /\ cl_before = <<>>
    /\ cl_returned = <<>>

\* a method of the cleaner is called with a frame
CleanStart ==
    /\ cl_call \in CleanCalls
    /\ cl_input \in SeqsUpTo(CleanRows, MaxCleanRows)
    /\ cl_frame = cl_input
    /\ cl_before = cl_input
    /\ cl_returned = <<>>
    /\ cl_pc = IF cl_call = "clean_data" THEN "copy"
               ELSE IF cl_call = "clean_impact_levels" THEN "impact"
               ELSE "countries"

\* the caller's frame after a step that left `frame`: clean_data works on
\* its copy, the other two methods assign to the frame they were given
CallerFrame(frame) == IF cl_call = "clean_data" THEN cl_input ELSE frame

\* clean_data, line 192: cleaned_df = df.copy()
CleanDataCopy ==
    /\ cl_pc = "copy"
    /\ cl_frame' = cl_input
    /\ cl_pc' = "impact"
    /\ UNCHANGED <<cl_call, cl_input, cl_before, cl_returned>>

\* clean_impact_levels (lines 82-97), called directly or at line 195
CleanImpactLevels ==
    /\ cl_pc = "impact"
    /\ cl_frame' = CleanImpactLevelsOf(cl_frame)
    /\ cl_input' = CallerFrame(cl_frame')
    /\ cl_pc' = IF cl_call = "clean_data" THEN "countries" ELSE "returned"
    /\ UNCHANGED <<cl_call, cl_before, cl_returned>>

\* clean_countries (lines 99-136), called directly or at line 198
CleanCountries ==
    /\ cl_pc = "countries"
    /\ cl_frame' = CleanCountriesOf(cl_frame)
    /\ cl_input' = CallerFrame(cl_frame')
    /\ cl_pc' = IF cl_call = "clean_data" THEN "dedup" ELSE "returned"
    /\ UNCHANGED <<cl_call, cl_before, cl_returned>>

\* clean_data, lines 200-209: the duplicates are dropped and the frame
\* returned
CleanDataReturn ==
    /\ cl_pc = "dedup"
    /\ cl_frame' = CleanDropDuplicates(cl_frame)
    /\ cl_returned' = Append(cl_returned, cl_frame')
    /\ cl_pc' = "returned"
    /\ UNCHANGED <<cl_call, cl_input, cl_before>>

\* clean_data (line 187) called with the frame the last call returned
CleanDataAgain ==
    /\ cl_pc = "returned"
    /\ cl_call = "clean_data"
    /\ Len(cl_returned) < MaxCleanCalls
    /\ cl_input' = cl_frame
    /\ cl_before' = cl_frame
    /\ cl_pc' = "copy"
    /\ UNCHANGED <<cl_call, cl_frame, cl_returned>>

(***************************************************************************)
(* _is_driver_responsive (scraper.py 1495-1512)                            *)
(*   pb_pc      position in the call: "try", "probe", "except", "returned" *)
(*   pb_driver  whether self.driver holds a session                        *)
(*   driver_session_lost   self._driver_session_lost                       *)
(*   pb_error   what reading driver.current_url does: NoError, or the text *)
(*              of the exception it raises                                 *)
(*   pb_result  the value returned ("none" before the return)              *)
(* and, recorded for the properties only,                                  *)
(*   pb_lost_before  the flag as it was when the method was called         *)
(***************************************************************************)
VARIABLES pb_pc, pb_driver, driver_session_lost, pb_error, pb_result,
          pb_lost_before

probeVars ==
    <<pb_pc, pb_driver, driver_session_lost, pb_error, pb_result,
      pb_lost_before>>

NoError == <<"<none>">>

MsgInvalidSession ==
    <<"M", "e", "s", "s", "a", "g", "e", ":", " ", "i", "n", "v", "a", "l",
      "i", "d", " ", "s", "e", "s", "s", "i", "o", "n", " ", "i", "d">>

MsgInvalidSessionTitle ==
    <<"I", "n", "v", "a", "l", "i", "d", " ", "S", "e", "s", "s", "i", "o",
      "n", " ", "I", "d">>

MsgSessionDeleted ==
    <<"s", "e", "s", "s", "i", "o", "n", " ", "d", "e", "l", "e", "t", "e",
      "d", " ", "b", "e", "c", "a", "u", "s", "e", " ", "o", "f", " ", "p",
      "a", "g", "e", " ", "c", "r", "a", "s", "h">>

MsgSessionDeletedUpper ==
    <<"S", "E", "S", "S", "I", "O", "N", " ", "D", "E", "L", "E", "T", "E",
      "D">>

MsgNotReachable ==
    <<"c", "h", "r", "o", "m", "e", " ", "n", "o", "t", " ", "r", "e", "a",
      "c", "h", "a", "b", "l", "e">>

MsgInvalidArgument ==
    <<"i", "n", "v", "a", "l", "i", "d", " ", "a", "r", "g", "u", "m", "e",
      "n", "t", ":", " ", "s", "e", "s", "s", "i", "o", "n">>

MsgSessionNotCreated ==
    <<"s", "e", "s", "s", "i", "o", "n", " ", "n", "o", "t", " ", "c", "r",
      "e", "a", "t", "e", "d">>

MsgTimeout == <<"t", "i", "m", "e", "o", "u", "t">>

MsgEmpty == <<>>

ProbeErrors ==
    {MsgInvalidSession, MsgInvalidSessionTitle, MsgSessionDeleted, MsgSessionDeletedUpper,
     MsgNotReachable, MsgInvalidArgument, MsgSessionNotCreated, MsgTimeout, MsgEmpty}

TxtInvalidSessionId == <<"i", "n", "v", "a", "l", "i", "d", " ", "s", "e", "s", "s", "i", "o", "n", " ", "i", "d">>

TxtSessionDeleted == <<"s", "e", "s", "s", "i", "o", "n", " ", "d", "e", "l", "e", "t", "e", "d">>

\* line 1506 with every error taken for a lost session
SessionLostTextAnyError(e) == TRUE

\* lines 1505-1506: error_msg = str(e).lower() names a lost session
SessionLostText(e) ==
    LET error_msg == Lower(e)
    IN  Contains(error_msg, TxtInvalidSessionId)
            \/ Contains(error_msg, TxtSessionDeleted)

ProbeIdle ==
    /\ pb_pc = "idle"
    /\ pb_driver = FALSE
    /\ driver_session_lost = FALSE
    /\ pb_error = NoError
    /\ pb_result = "none"
    /\ pb_lost_before = FALSE

\* the call, with or without a session, the flag set or not
ProbeStart ==
    /\ pb_pc = "try"
    /\ pb_driver \in BOOLEAN
    /\ driver_session_lost \in BOOLEAN
    /\ pb_error \in {NoError} \cup ProbeErrors
    /\ pb_result = "none"
    /\ pb_lost_before = driver_session_lost

\* lines 1498-1499: no session is held
ProbeNoDriver ==
    /\ pb_pc = "try"
    /\ IF ~pb_driver
       THEN pb_pc' = "returned" /\ pb_result' = "False"
       ELSE pb_pc' = "probe" /\ pb_result' = pb_result
    /\ UNCHANGED <<pb_driver, driver_session_lost, pb_error, pb_lost_before>>

\* lines 1502-1503: current_url is read; True, or the exception
ProbeCurrentUrl ==
    /\ pb_pc = "probe"
    /\ IF pb_error = NoError
       THEN pb_pc' = "returned" /\ pb_result' = "True"
       ELSE pb_pc' = "except" /\ pb_result' = pb_result
    /\ UNCHANGED <<pb_driver, driver_session_lost, pb_error, pb_lost_before>>

\* lines 1504-1512: the handler
ProbeExcept ==
    /\ pb_pc = "except"
    /\ driver_session_lost' =
          IF SessionLostText(pb_error) THEN TRUE ELSE driver_session_lost
    /\ pb_pc' = "returned"
    /\ pb_result' = "False"
    /\ UNCHANGED <<pb_driver, pb_error, pb_lost_before>>

(***************************************************************************)
(* Specifications                                                          *)
(***************************************************************************)
vars ==
    <<splitVars, sinkVars, extractVars, rangeVars, navVars, pipelineVars, mapVars, schedVars,
      cleanVars, probeVars>>

SplitNext ==
    \/ SplitExit /\ UNCHANGED <<sinkVars, extractVars, rangeVars, navVars, pipelineVars, mapVars, schedVars, cleanVars, probeVars>>
    \/ SplitIterate /\ UNCHANGED <<sinkVars, extractVars, rangeVars, navVars, pipelineVars, mapVars, schedVars, cleanVars, probeVars>>

SplitInit == SplitStart /\ SinkIdle /\ ExtractIdle /\ RangeIdle /\ NavIdle /\ PipelineIdle /\ MapIdle /\ SchedIdle /\ CleanIdle /\ ProbeIdle

SpecSplit == SplitInit /\ [][SplitNext]_vars

\* the loop of lines 378-394 goes on as long as its condition holds
SpecSplitFair == SpecSplit /\ WF_vars(SplitNext)

SinkNext == CallAppendEvents /\ UNCHANGED <<splitVars, extractVars, rangeVars, navVars, pipelineVars, mapVars, schedVars, cleanVars, probeVars>>

SinkInit == SinkStart /\ SplitIdle /\ ExtractIdle /\ RangeIdle /\ NavIdle /\ PipelineIdle /\ MapIdle /\ SchedIdle /\ CleanIdle /\ ProbeIdle

SpecSink == SinkInit /\ [][SinkNext]_vars

ExtractNext ==
    \/ ParseJs /\ UNCHANGED <<splitVars, sinkVars, rangeVars, navVars, pipelineVars, mapVars, schedVars, cleanVars, probeVars>>
    \/ Enhance /\ UNCHANGED <<splitVars, sinkVars, rangeVars, navVars, pipelineVars, mapVars, schedVars, cleanVars, probeVars>>
    \/ FallbackHtml /\ UNCHANGED <<splitVars, sinkVars, rangeVars, navVars, pipelineVars, mapVars, schedVars, cleanVars, probeVars>>
    \/ ConvertImpactInEvents /\ UNCHANGED <<splitVars, sinkVars, rangeVars, navVars, pipelineVars, mapVars, schedVars, cleanVars, probeVars>>
    \/ ReturnEvents /\ UNCHANGED <<splitVars, sinkVars, rangeVars, navVars, pipelineVars, mapVars, schedVars, cleanVars, probeVars>>

ExtractInit == ExtractStart /\ SplitIdle /\ SinkIdle /\ RangeIdle /\ NavIdle /\ PipelineIdle /\ MapIdle /\ SchedIdle /\ CleanIdle /\ ProbeIdle

SpecExtract == ExtractInit /\ [][ExtractNext]_vars

\* scrape_date_range with a record sink whose file does not exist yet
RangeNext ==
    \/ EnterRange /\ UNCHANGED <<splitVars, sinkVars, extractVars, navVars, pipelineVars, mapVars, schedVars, cleanVars, probeVars>>
    \/ NavigateLoads /\ UNCHANGED <<splitVars, sinkVars, extractVars, navVars, pipelineVars, mapVars, schedVars, cleanVars, probeVars>>
    \/ NavigateFails /\ UNCHANGED <<splitVars, sinkVars, extractVars, navVars, pipelineVars, mapVars, schedVars, cleanVars, probeVars>>
    \/ NavigateSessionLost /\ UNCHANGED <<splitVars, sinkVars, extractVars, navVars, pipelineVars, mapVars, schedVars, cleanVars, probeVars>>
    \/ NavigateSessionLostTwice /\ UNCHANGED <<splitVars, sinkVars, extractVars, navVars, pipelineVars, mapVars, schedVars, cleanVars, probeVars>>
    \/ ScrapeRangePage /\ UNCHANGED <<splitVars, sinkVars, extractVars, navVars, pipelineVars, mapVars, schedVars, cleanVars, probeVars>>
    \/ FallbackExit /\ UNCHANGED <<splitVars, sinkVars, extractVars, navVars, pipelineVars, mapVars, schedVars, cleanVars, probeVars>>
    \/ FallbackSkip /\ UNCHANGED <<splitVars, sinkVars, extractVars, navVars, pipelineVars, mapVars, schedVars, cleanVars, probeVars>>
    \/ FallbackDay /\ UNCHANGED <<splitVars, sinkVars, extractVars, navVars, pipelineVars, mapVars, schedVars, cleanVars, probeVars>>
    \/ ScrapeDayPage /\ UNCHANGED <<splitVars, extractVars, navVars, pipelineVars, mapVars, schedVars, cleanVars, probeVars>>
    \/ CollectRange /\ UNCHANGED <<splitVars, sinkVars, extractVars, navVars, pipelineVars, mapVars, schedVars, cleanVars, probeVars>>
    \/ FinishRun /\ UNCHANGED <<splitVars, sinkVars, extractVars, navVars, pipelineVars, mapVars, schedVars, cleanVars, probeVars>>

RangeInit == RangeStart /\ SplitIdle /\ SinkIdle /\ ExtractIdle /\ NavIdle /\ PipelineIdle /\ MapIdle /\ SchedIdle /\ CleanIdle /\ ProbeIdle

SpecRange == RangeInit /\ [][RangeNext]_vars

\* one call of _navigate_to_page; the method keeps running until it returns
NavNext ==
    \/ NavFor /\ UNCHANGED <<splitVars, sinkVars, extractVars, rangeVars, pipelineVars, mapVars, schedVars, cleanVars, probeVars>>
    \/ NavGet /\ UNCHANGED <<splitVars, sinkVars, extractVars, rangeVars, pipelineVars, mapVars, schedVars, cleanVars, probeVars>>
    \/ NavSimulate /\ UNCHANGED <<splitVars, sinkVars, extractVars, rangeVars, pipelineVars, mapVars, schedVars, cleanVars, probeVars>>
    \/ NavCheck /\ UNCHANGED <<splitVars, sinkVars, extractVars, rangeVars, pipelineVars, mapVars, schedVars, cleanVars, probeVars>>
    \/ NavPoll /\ UNCHANGED <<splitVars, sinkVars, extractVars, rangeVars, pipelineVars, mapVars, schedVars, cleanVars, probeVars>>
    \/ NavRefresh /\ UNCHANGED <<splitVars, sinkVars, extractVars, rangeVars, pipelineVars, mapVars, schedVars, cleanVars, probeVars>>
    \/ NavAfterVerification /\ UNCHANGED <<splitVars, sinkVars, extractVars, rangeVars, pipelineVars, mapVars, schedVars, cleanVars, probeVars>>
    \/ NavErrorCheck /\ UNCHANGED <<splitVars, sinkVars, extractVars, rangeVars, pipelineVars, mapVars, schedVars, cleanVars, probeVars>>
    \/ NavDelayedCheck /\ UNCHANGED <<splitVars, sinkVars, extractVars, rangeVars, pipelineVars, mapVars, schedVars, cleanVars, probeVars>>
    \/ NavDelayedPoll /\ UNCHANGED <<splitVars, sinkVars, extractVars, rangeVars, pipelineVars, mapVars, schedVars, cleanVars, probeVars>>

NavInit ==
    NavStart /\ SplitIdle /\ SinkIdle /\ ExtractIdle /\ RangeIdle /\ PipelineIdle /\ MapIdle /\ SchedIdle /\ CleanIdle /\ ProbeIdle

SpecNav == NavInit /\ [][NavNext]_vars /\ WF_vars(NavNext)

PipelineNext ==
    \/ EnterRange /\ UNCHANGED <<splitVars, sinkVars, extractVars, navVars, pipelineVars, mapVars, schedVars, cleanVars, probeVars>>
    \/ NavigateLoads /\ UNCHANGED <<splitVars, sinkVars, extractVars, navVars, pipelineVars, mapVars, schedVars, cleanVars, probeVars>>
    \/ NavigateFails /\ UNCHANGED <<splitVars, sinkVars, extractVars, navVars, pipelineVars, mapVars, schedVars, cleanVars, probeVars>>
    \/ NavigateSessionLost /\ UNCHANGED <<splitVars, sinkVars, extractVars, navVars, pipelineVars, mapVars, schedVars, cleanVars, probeVars>>
    \/ NavigateSessionLostTwice /\ UNCHANGED <<splitVars, sinkVars, extractVars, navVars, pipelineVars, mapVars, schedVars, cleanVars, probeVars>>
    \/ ScrapeRangePage /\ UNCHANGED <<splitVars, sinkVars, extractVars, navVars, pipelineVars, mapVars, schedVars, cleanVars, probeVars>>
    \/ FallbackExit /\ UNCHANGED <<splitVars, sinkVars, extractVars, navVars, pipelineVars, mapVars, schedVars, cleanVars, probeVars>>
    \/ FallbackSkip /\ UNCHANGED <<splitVars, sinkVars, extractVars, navVars, pipelineVars, mapVars, schedVars, cleanVars, probeVars>>
    \/ FallbackDay /\ UNCHANGED <<splitVars, sinkVars, extractVars, navVars, pipelineVars, mapVars, schedVars, cleanVars, probeVars>>
    \/ ScrapeDayPage /\ UNCHANGED <<splitVars, extractVars, navVars, pipelineVars, mapVars, schedVars, cleanVars, probeVars>>
    \/ CollectRange /\ UNCHANGED <<splitVars, sinkVars, extractVars, navVars, pipelineVars, mapVars, schedVars, cleanVars, probeVars>>
    \/ FinishRun /\ UNCHANGED <<splitVars, sinkVars, extractVars, navVars, pipelineVars, mapVars, schedVars, cleanVars, probeVars>>
    \/ RangeScraped /\ UNCHANGED <<splitVars, extractVars, navVars, mapVars, schedVars, cleanVars, probeVars>>
    \/ DailySetup /\ UNCHANGED <<splitVars, extractVars, navVars, mapVars, schedVars, cleanVars, probeVars>>
    \/ DailyNavigateLoads /\ UNCHANGED <<splitVars, extractVars, navVars, mapVars, schedVars, cleanVars, probeVars>>
    \/ DailyNavigateFails /\ UNCHANGED <<splitVars, extractVars, navVars, mapVars, schedVars, cleanVars, probeVars>>
    \/ DailyNavigateSessionLost /\ UNCHANGED <<splitVars, extractVars, navVars, mapVars, schedVars, cleanVars, probeVars>>
    \/ DailyScrapeDayPage /\ UNCHANGED <<splitVars, extractVars, navVars, mapVars, schedVars, cleanVars, probeVars>>
    \/ DailyClose /\ UNCHANGED <<splitVars, extractVars, navVars, mapVars, schedVars, cleanVars, probeVars>>
    \/ PipelineScrapeOnly /\ UNCHANGED <<splitVars, extractVars, navVars, mapVars, schedVars, cleanVars, probeVars>>
    \/ PipelineSave /\ UNCHANGED <<splitVars, extractVars, navVars, mapVars, schedVars, cleanVars, probeVars>>
    \/ PipelineNoEvents /\ UNCHANGED <<splitVars, extractVars, navVars, mapVars, schedVars, cleanVars, probeVars>>

PipelineInit ==
    PipelineStart /\ SplitIdle /\ ExtractIdle /\ NavIdle /\ MapIdle /\ SchedIdle /\ CleanIdle /\ ProbeIdle

SpecPipeline == PipelineInit /\ [][PipelineNext]_vars

MapNext ==
    \/ AddCustomMapping /\ UNCHANGED <<splitVars, sinkVars, extractVars, rangeVars, navVars, pipelineVars, schedVars, cleanVars, probeVars>>
    \/ RemoveCustomMapping /\ UNCHANGED <<splitVars, sinkVars, extractVars, rangeVars, navVars, pipelineVars, schedVars, cleanVars, probeVars>>
    \/ MapCall /\ UNCHANGED <<splitVars, sinkVars, extractVars, rangeVars, navVars, pipelineVars, schedVars, cleanVars, probeVars>>
    \/ MapEvent /\ UNCHANGED <<splitVars, sinkVars, extractVars, rangeVars, navVars, pipelineVars, schedVars, cleanVars, probeVars>>
    \/ MapReturn /\ UNCHANGED <<splitVars, sinkVars, extractVars, rangeVars, navVars, pipelineVars, schedVars, cleanVars, probeVars>>
    \/ GetPairsAndChange /\ UNCHANGED <<splitVars, sinkVars, extractVars, rangeVars, navVars, pipelineVars, schedVars, cleanVars, probeVars>>

MapInit ==
    /\ MapStart
    /\ SplitIdle /\ SinkIdle /\ ExtractIdle /\ RangeIdle /\ NavIdle /\ PipelineIdle /\ SchedIdle /\ CleanIdle /\ ProbeIdle

SpecMap == MapInit /\ [][MapNext]_vars

\* the job of the scheduler, with a termination signal at any moment
SchedNext ==
    \/ JobStep(EnterRange) /\ UNCHANGED <<splitVars, sinkVars, extractVars, navVars, pipelineVars, mapVars, cleanVars, probeVars>>
    \/ JobStep(NavigateLoads) /\ UNCHANGED <<splitVars, sinkVars, extractVars, navVars, pipelineVars, mapVars, cleanVars, probeVars>>
    \/ JobStep(NavigateFails) /\ UNCHANGED <<splitVars, sinkVars, extractVars, navVars, pipelineVars, mapVars, cleanVars, probeVars>>
    \/ JobStep(NavigateSessionLost) /\ UNCHANGED <<splitVars, sinkVars, extractVars, navVars, pipelineVars, mapVars, cleanVars, probeVars>>
    \/ JobStep(NavigateSessionLostTwice) /\ UNCHANGED <<splitVars, sinkVars, extractVars, navVars, pipelineVars, mapVars, cleanVars, probeVars>>
    \/ JobStep(ScrapeRangePage) /\ UNCHANGED <<splitVars, sinkVars, extractVars, navVars, pipelineVars, mapVars, cleanVars, probeVars>>
    \/ JobStep(FallbackExit) /\ UNCHANGED <<splitVars, sinkVars, extractVars, navVars, pipelineVars, mapVars, cleanVars, probeVars>>
    \/ JobStep(FallbackSkip) /\ UNCHANGED <<splitVars, sinkVars, extractVars, navVars, pipelineVars, mapVars, cleanVars, probeVars>>
    \/ JobStep(FallbackDay) /\ UNCHANGED <<splitVars, sinkVars, extractVars, navVars, pipelineVars, mapVars, cleanVars, probeVars>>
    \/ JobStep(ScrapeDayPage) /\ UNCHANGED <<splitVars, extractVars, navVars, pipelineVars, mapVars, cleanVars, probeVars>>
    \/ JobStep(CollectRange) /\ UNCHANGED <<splitVars, sinkVars, extractVars, navVars, pipelineVars, mapVars, cleanVars, probeVars>>
    \/ JobStep(FinishRun) /\ UNCHANGED <<splitVars, sinkVars, extractVars, navVars, pipelineVars, mapVars, cleanVars, probeVars>>
    \/ JobStep(RangeScraped) /\ UNCHANGED <<splitVars, extractVars, navVars, mapVars, cleanVars, probeVars>>
    \/ JobStep(PipelineSave) /\ UNCHANGED <<splitVars, extractVars, navVars, mapVars, cleanVars, probeVars>>
    \/ JobStep(PipelineNoEvents) /\ UNCHANGED <<splitVars, extractVars, navVars, mapVars, cleanVars, probeVars>>
    \/ SignalHandler /\ UNCHANGED <<splitVars, sinkVars, extractVars, rangeVars, navVars, pipelineVars, mapVars, cleanVars, probeVars>>
    \/ JobReturns /\ UNCHANGED <<splitVars, sinkVars, extractVars, rangeVars, navVars, pipelineVars, mapVars, cleanVars, probeVars>>
    \/ SchedulerStops /\ UNCHANGED <<splitVars, sinkVars, extractVars, rangeVars, navVars, pipelineVars, mapVars, cleanVars, probeVars>>

SchedInit == SchedStart /\ SplitIdle /\ ExtractIdle /\ NavIdle /\ MapIdle /\ CleanIdle /\ ProbeIdle

SpecSched == SchedInit /\ [][SchedNext]_vars

\* one call of a method of the cleaner
CleanNext ==
    \/ CleanDataCopy /\ UNCHANGED <<splitVars, sinkVars, extractVars, rangeVars, navVars, pipelineVars, mapVars, schedVars, probeVars>>
    \/ CleanImpactLevels /\ UNCHANGED <<splitVars, sinkVars, extractVars, rangeVars, navVars, pipelineVars, mapVars, schedVars, probeVars>>
    \/ CleanCountries /\ UNCHANGED <<splitVars, sinkVars, extractVars, rangeVars, navVars, pipelineVars, mapVars, schedVars, probeVars>>
    \/ CleanDataReturn /\ UNCHANGED <<splitVars, sinkVars, extractVars, rangeVars, navVars, pipelineVars, mapVars, schedVars, probeVars>>
    \/ CleanDataAgain /\ UNCHANGED <<splitVars, sinkVars, extractVars, rangeVars, navVars, pipelineVars, mapVars, schedVars, probeVars>>

CleanInit ==
    /\ CleanStart
    /\ SplitIdle /\ SinkIdle /\ ExtractIdle /\ RangeIdle /\ NavIdle /\ PipelineIdle /\ MapIdle /\ SchedIdle /\ ProbeIdle

SpecClean == CleanInit /\ [][CleanNext]_vars

ProbeNext ==
    \/ ProbeNoDriver /\ UNCHANGED <<splitVars, sinkVars, extractVars, rangeVars, navVars, pipelineVars, mapVars, schedVars, cleanVars>>
    \/ ProbeCurrentUrl /\ UNCHANGED <<splitVars, sinkVars, extractVars, rangeVars, navVars, pipelineVars, mapVars, schedVars, cleanVars>>
    \/ ProbeExcept /\ UNCHANGED <<splitVars, sinkVars, extractVars, rangeVars, navVars, pipelineVars, mapVars, schedVars, cleanVars>>

ProbeInit ==
    /\ ProbeStart
    /\ SplitIdle /\ SinkIdle /\ ExtractIdle /\ RangeIdle /\ NavIdle /\ PipelineIdle /\ MapIdle /\ SchedIdle /\ CleanIdle

SpecProbe == ProbeInit /\ [][ProbeNext]_vars

(***************************************************************************)
(* Claims about _split_into_ranges                                         *)
(***************************************************************************)
SplitDone == sp_pc = "done"

\* the windows, read as inclusive spans of calendar dates, are ascending and
\* adjacent (each starts the day after the previous one ends), at most
\* max_months * 30 days long, the first starts on the date of start_date
\* and the last ends on the date of end_date
IsPartition(rs, sd, ed, mm) ==
    /\ Len(rs) >= 1
    /\ DateOf(rs[1][1]) = DateOf(sd)
    /\ DateOf(rs[Len(rs)][2]) = DateOf(ed)
    /\ \A k \in 1..Len(rs) :
          /\ rs[k][1] <= rs[k][2]
          /\ (DateOf(rs[k][2]) - DateOf(rs[k][1])) + 1 <= mm * DaysPerMonth
    /\ \A k \in 1..(Len(rs) - 1) : DateOf(rs[k + 1][1]) = DateOf(rs[k][2]) + 1

\* C1: for every start <= end and max_months >= 1 the windows returned by
\* _split_into_ranges are ascending, non-overlapping, at most
\* max_months * 30 days long and their union is exactly the dates of
\* [start, end].
C1_PartitionCoverage ==
    (SplitDone /\ start_date <= end_date /\ max_months >= 1)
        => IsPartition(sp_ranges, start_date, end_date, max_months)

(***************************************************************************)
(* Claims about the record sink                                            *)
(***************************************************************************)
\* the records of the store as get_existing_events reads them back
StoredRecords(file) == {ReadCsv(file.rows)[k] : k \in 1..Len(file.rows)}

StoredWithKey(file, key) ==
    {k \in 1..Len(file.rows) : KeyOf(ReadCsv(file.rows)[k]) = key}

\* the last two calls of append_events succeeded
LastTwoOk ==
    /\ Len(sink_calls) >= 2
    /\ sink_calls[Len(sink_calls)].ok
    /\ sink_calls[Len(sink_calls) - 1].ok

LastCall == sink_calls[Len(sink_calls)]

CallBeforeLast == sink_calls[Len(sink_calls) - 1]

\* C8: appending the same batch twice leaves the same stored set of records
\* as appending it once (the store after the second append holds the same
\* records as the store after the first).
C8_IdempotentReappend ==
    (LastTwoOk /\ LastCall.events = CallBeforeLast.events)
        => StoredRecords(csv_file) = StoredRecords(LastCall.before)

\* C9: two records with the same key and different Actual values appended
\* one after the other leave exactly one stored record for the key, with
\* the Actual value of the record appended later.
C9_LaterValueKept ==
    (/\ LastTwoOk
     /\ Len(LastCall.events) = 1
     /\ Len(CallBeforeLast.events) = 1
     /\ KeyOf(LastCall.events[1]) = KeyOf(CallBeforeLast.events[1])
     /\ LastCall.events[1].Actual # CallBeforeLast.events[1].Actual)
        => LET key == KeyOf(ReadCsv(ToCsv(ToFrame(LastCall.events)))[1])
               at == StoredWithKey(csv_file, key)
           IN  /\ Cardinality(at) = 1
               /\ \A k \in at : csv_file.rows[k].Actual = LastCall.events[1].Actual

\* C10: after any sequence of successful append_events calls from an absent
\* or empty store the file holds at most one record per
\* (DateTime, Event, Currency) key.
C10_OneRecordPerKey ==
    (\A c \in 1..Len(sink_calls) : sink_calls[c].ok)
        => \A j, k \in 1..Len(csv_file.rows) :
              KeyOf(ReadCsv(csv_file.rows)[j]) = KeyOf(ReadCsv(csv_file.rows)[k])
                  => j = k

\* the records _scrape_day holds once they are extracted, and the ones it
\* returns
Extracted == ex_pc \in {"parsed", "extracted", "converted", "returned"}

Returned == ex_pc = "returned"

EventsOf(xs) == {xs[k] : k \in 1..Len(xs)}

\* C6: every record returned by _scrape_day has Impact in {High, Medium,
\* Low}, whatever impact hint the page supplied (a CSS class token in any
\* letter case, an arbitrary string or number in the impact field of the
\* embedded state, or no hint) and whichever path extracted the record.
C6_ImpactIsHighMediumLow ==
    Returned => \A e \in EventsOf(ex_events) : e.Impact \in ImpactLevels

\* the raw entries of the page: the events of the embedded state when it was
\* found, the rows of the table otherwise
RawEntries == IF page.has_js THEN Len(page.js) ELSE Len(page.rows)

\* C7: no record with an empty title is emitted: on the embedded-state path
\* and on the HTML path alike every record _scrape_day holds, and so every
\* record it returns, has a non-empty Event.
C7_NoEmptyTitle ==
    Extracted => \A e \in EventsOf(ex_events) : Truthy(e.Event)

\* a page with two raw entries, one of them with an empty title, was
\* extracted: the entry without title was dropped, the other one returned
C7_Witness ==
    /\ Returned
    /\ RawEntries = 2
    /\ Len(ex_events) = 1
    /\ \/ \E k \in 1..Len(page.rows) : page.rows[k][4].text = <<>>
       \/ \E k \in 1..Len(page.js) : ~Truthy(Get(page.js[k], "name", StrVal(<<>>)))

\* the record e has a row in the CSV file (the rows are keyed by DateTime,
\* Event and Currency)
Stored(e) ==
    \E k \in 1..Len(csv_file.rows) :
        KeyOf(csv_file.rows[k])
            = <<FormatDateTime(e.DateTime), e.Event.s, e.Currency.s>>

\* C2: in scrape_date_range the records of every window that was scraped
\* with at least one record are handed to the record sink before the next
\* window starts: at any point of the run the sink holds the records of all
\* windows completed so far.
C2_WindowsPersisted ==
    \A k \in 1..Len(returned) : \A e \in EventsOf(returned[k]) : Stored(e)

RECURSIVE Flatten(_)
Flatten(lists) ==
    IF lists = <<>> THEN <<>> ELSE lists[1] \o Flatten(Tail(lists))

\* the windows in which every navigation returned False
FailedWindows == nav_failed \ nav_loaded

\* C3: a failure in one window never prevents the other windows from being
\* processed: the windows are attempted one after the other, each adds the
\* list it returned to the returned list, and the run ends only when every
\* window of the partition has been attempted.
C3_FailureIsolation ==
    rg_pc # "idle" =>
        /\ all_events = Flatten(returned)
        /\ Len(returned) = range_index - 1
        /\ range_index <= Len(ranges) + 1
        /\ rg_pc = "done" => Len(returned) = Len(ranges)

\* the run is over; in its first window every navigation returned False,
\* and its second window returned a record, which is in the returned list
C3_Witness ==
    /\ rg_pc = "done"
    /\ Len(ranges) = 2
    /\ 1 \in FailedWindows
    /\ returned[2] # <<>>
    /\ \A e \in EventsOf(returned[2]) : e \in EventsOf(all_events)

\* C4: a window whose navigation always returns False contributes no
\* record and is counted in failed_ranges, not in successful_ranges: when
\* the run is over and a window failed, failed_ranges >= 1 and not all
\* windows count as successful.
C4_FailedWindowCounted ==
    rg_pc = "done" =>
        /\ \A k \in FailedWindows : returned[k] = <<>>
        /\ FailedWindows # {} =>
              /\ failed_ranges >= 1
              /\ successful_ranges < Len(ranges)

\* the sessions created in window k
CreatedIn(k) == {s \in 1..Len(created_in) : created_in[s] = k}

\* C5: the session window k used is closed after window k, whether the
\* window succeeded or failed, and window k+1 runs on a session created for
\* it: every session a window uses was created in that window, and every
\* session of a finished window has been closed.
C5_SessionRotation ==
    \A k \in 1..Len(used) :
        /\ used[k] \subseteq CreatedIn(k)
        /\ k < range_index => (used[k] \cup CreatedIn(k)) \subseteq quit

\* two consecutive windows have run, the first one failed (every navigation
\* returned False), the second one did not, and both used a session
C5_Witness ==
    /\ rg_pc = "done"
    /\ Len(ranges) = 2
    /\ 1 \in FailedWindows
    /\ 2 \in nav_loaded
    /\ used[1] # {}
    /\ used[2] # {}

NavReturned == nv_pc = "returned"

\* C11: _navigate_to_page always terminates: it loads the URL at most
\* retry_attempts times, polls the verification page at most 18 times (12
\* on the delayed check) in an attempt, and returns False once
\* retry_attempts attempts have been used without one of them ending in a
\* loaded page; with retry_attempts = 0 it returns False without a load.
C11_NavigationTerminates ==
    /\ [](/\ nv_loads <= nv_retry
          /\ nv_attempt <= nv_retry
          /\ nv_loads <= nv_attempt
          /\ nv_pc = "poll" => nv_polls <= 18
          /\ nv_pc = "delayed_poll" => nv_polls <= 12
          /\ NavReturned => nv_result \in {"True", "False"}
          /\ (NavReturned /\ nv_retry = 0) => (nv_result = "False" /\ nv_loads = 0)
          /\ (NavReturned /\ nv_result = "True") => nv_attempt >= 1)
    /\ (nv_pc = "for") ~> NavReturned
    /\ (nv_pc = "for" /\ nv_attempt = nv_retry)
          ~> (NavReturned /\ nv_result = "False")

\* all attempts were used, the last one with both waits of the first
\* verification loop exhausted and a refresh, and False was returned
C11_Witness ==
    /\ NavReturned
    /\ nv_result = "False"
    /\ nv_retry = MaxRetry
    /\ nv_attempt = nv_retry
    /\ nv_loads = nv_retry
    /\ nv_polls = 18
    /\ nv_refreshed

\* C12: _navigate_to_page returns True only when the page at the moment of
\* return is not a verification page; a verification page that does not
\* clear within the bounded waits ends in False.
C12_NoVerificationPageLoaded ==
    (NavReturned /\ nv_result = "True") => nv_page # "verification"

\* C14: a failure of the human-behaviour simulation is swallowed: however
\* the simulation ends, the attempt goes on to the verification check, with
\* the same attempt count and no result yet.
C14_SimulationSwallowed ==
    [][nv_pc = "simulate" =>
          /\ nv_pc' = "check"
          /\ nv_attempt' = nv_attempt
          /\ nv_result' = nv_result
          /\ nv_alive' = nv_alive
          /\ nv_page' = nv_page]_vars

\* the simulation raised in the first attempt and that attempt returned True
C14_Witness ==
    /\ NavReturned
    /\ nv_result = "True"
    /\ nv_attempt = 1
    /\ nv_sim = "pointer raises"

PipelineReturned == pl_pc = "returned"

\* C13: if no browser session can be constructed at all (every
\* _setup_driver call raises before a session exists), the run is reported
\* as failed: run_pipeline returns False, in range mode as in daily mode.
C13_NoSessionIsFailure ==
    (PipelineReturned /\ sessions = 0) => pl_result = "False"

\* the records the sink was handed, call after call
HandedOver == Flatten([c \in 1..Len(sink_calls) |-> sink_calls[c].events])

InsideScrapeSingleDay ==
    pl_pc \in {"daily_setup", "daily_navigate", "daily_parse", "daily_close"}

C17_RangeEventsStored ==
    (/\ PipelineReturned
     /\ pl_mode = "range"
     /\ pl_result = "True"
     /\ ~pl_scrape_only
     /\ pl_events # <<>>)
        => \A k \in 1..Len(pl_events) :
              \E j \in 1..Len(csv_file.rows) :
                  KeyOf(csv_file.rows[j])
                      = KeyOf(ToCsv(ToFrame(SinkEvents(pl_events)))[k])

\* a step in which _close_driver runs on its own: the finally clause of
\* scrape_single_day, the close after a window, the close at the end of
\* scrape_date_range
ClosingStep ==
    \/ pl_pc = "daily_close" /\ pl_pc' # "daily_close"
    \/ rg_pc = "collect" /\ rg_pc' = "for"
    \/ rg_pc = "for" /\ rg_pc' = "done"

\* C19: _close_driver never raises and is idempotent: after it no session
\* is held (driver is None) and the session that was held counts as
\* released, also when quit() fails; called without a session it changes
\* nothing; and scrape_single_day leaves by an exception after it only if
\* _setup_driver raised.
C19_CloseDriverIdempotent ==
    [][ClosingStep =>
          /\ driver' = 0
          /\ quit' = quit \cup ({driver} \ {0})
          /\ driver = 0 => (driver' = driver /\ quit' = quit)
          /\ (pl_pc = "daily_close" /\ ~pl_raised) =>
                 (pl_pc' = "scraped" /\ pl_result' = pl_result)]_vars

\* scrape_single_day has returned its events although quit() raised in
\* _close_driver, and no session is held
C19_Witness ==
    /\ pl_pc = "scraped"
    /\ pl_quit_failed
    /\ driver = 0
    /\ sessions = 1
    /\ quit = {1}

\* the sessions that were created and not closed
OpenSessions == (1..sessions) \ quit

\* C20: at every point of a run at most one browser session is open, and
\* it is the one the scraper holds; a session is created only when none is
\* held (the sessions open before are closed by then); a window of
\* scrape_date_range and scrape_single_day begin with no session open.
C20_OneSessionAtATime ==
    /\ [](/\ Cardinality(OpenSessions) <= 1
          /\ OpenSessions = {driver} \ {0}
          /\ (rg_pc = "for" \/ pl_pc = "daily_setup") => OpenSessions = {})
    /\ [][sessions' > sessions => OpenSessions \subseteq quit']_vars

\* the second window of a range run is being loaded on the third session:
\* the first window lost its session and got another one, and both were
\* closed before the second window began
C20_Witness ==
    /\ pl_mode = "range"
    /\ range_index = 2
    /\ rg_pc = "navigate_range"
    /\ sessions = 3
    /\ driver = 3
    /\ quit = {1, 2}

\* the texts between the separators ", " of text
RECURSIVE SplitComma(_)
SplitComma(text) ==
    LET at == {i \in 1..(Len(text) - 1) : text[i] = "," /\ text[i + 1] = " "}
    IN  IF at = {} THEN <<text>>
        ELSE LET i == CHOOSE n \in at : \A m \in at : n <= m
             IN  <<SubSeq(text, 1, i - 1)>>
                     \o SplitComma(SubSeq(text, i + 2, Len(text)))

\* C18: for every currency get_affected_pairs returns the custom override
\* list when one exists, otherwise the auto-mapping list, otherwise an
\* empty list; map_events_to_pairs gives every record a field AffectedPairs
\* that is the list joined with ", ", or N/A when the list is empty, and
\* never an empty or absent field.
C18_AffectedPairs ==
    /\ Len(mp_pairs) = Len(mapped_events)
    /\ mp_pc = "returned" => Len(mapped_events) = Len(mp_events)
    /\ \A k \in 1..Len(mapped_events) :
          LET event == mp_events[k]
              currency == IF "Currency" \in DOMAIN event
                          THEN event.Currency ELSE <<>>
              pairs == mp_pairs[k]
              overridden == currency \in DOMAIN custom_overrides
              automatic == currency \in DOMAIN auto_mapping
          IN  /\ overridden => pairs = custom_overrides[currency]
              /\ (~overridden /\ automatic) => pairs = auto_mapping[currency]
              /\ (~overridden /\ ~automatic) => pairs = <<>>
              /\ "AffectedPairs" \in DOMAIN mapped_events[k]
              /\ mapped_events[k].AffectedPairs # <<>>
              /\ pairs = <<>> => mapped_events[k].AffectedPairs = NA
              /\ pairs # <<>> => SplitComma(mapped_events[k].AffectedPairs) = pairs

\* two events were mapped: a USD event, with an override of two pairs that
\* differs from the auto mapping of USD, and an event without a currency
C18_Witness ==
    /\ mp_pc = "returned"
    /\ Len(mapped_events) = 2
    /\ USD \in DOMAIN custom_overrides
    /\ USD \in DOMAIN auto_mapping
    /\ auto_mapping[USD] = <<EUR \o USD>>
    /\ "Currency" \in DOMAIN mp_events[1]
    /\ mp_events[1].Currency = USD
    /\ mapped_events[1].AffectedPairs
           = <<"U", "S", "D", "J", "P", "Y", ",", " ", "E", "U", "R", "U",
               "S", "D">>
    /\ "Currency" \notin DOMAIN mp_events[2]
    /\ mapped_events[2].AffectedPairs = NA

(***************************************************************************)
(* C28: when driver.get raises an invalid-session error and the driver is  *)
(* set up again successfully, _navigate_to_page continues with the same    *)
(* attempt: the recovery does not use up one of the retry_attempts, so the *)
(* URL is loaded at least once on the new session before the call can      *)
(* return False.                                                           *)
(***************************************************************************)
C28_RecoveryKeepsAttempt ==
    (NavReturned /\ nv_result = "False" /\ nv_recreated[1] = "get")
        => nv_loads > nv_recreated[2]

(***************************************************************************)
(* C29: an attempt whose first verification check (line 210) is positive   *)
(* never returns True within that attempt, even when the verification page *)
(* clears during the wait and the session is alive: it returns False (the  *)
(* session could not be set up again) or goes on to the next attempt; so   *)
(* with retry_attempts = 1 a page that shows the verification on load      *)
(* always ends in False.                                                   *)
(***************************************************************************)
InsideVerificationBranch == nv_pc \in {"poll", "refresh", "after_verification"}

C29_VerifiedAttemptNeverTrue ==
    /\ [](nv_verif => nv_result # "True")
    /\ []((NavReturned /\ nv_retry = 1 /\ nv_verif) => nv_result = "False")
    /\ [][InsideVerificationBranch =>
            /\ nv_attempt' = nv_attempt
            /\ nv_loads' = nv_loads
            /\ \/ InsideVerificationBranch'
               \/ nv_pc' = "for"
               \/ nv_pc' = "returned" /\ nv_result' = "False"]_vars

C29_Witness ==
    /\ NavReturned
    /\ nv_retry = 1
    /\ nv_verif
    /\ nv_page = "calendar"
    /\ nv_alive
    /\ nv_recreated = NotRecreated
    /\ nv_result = "False"

C22_StructuralFailureFallsBack ==
    (rg_pc = "collect" /\ rg_view = "no table") => attempted # <<>>

(***************************************************************************)
(* C23: when _scrape_range_by_daily_fallback returns, it has attempted     *)
(* every non-weekend date of [range_start, range_end] exactly once, in     *)
(* chronological order, and no Saturday or Sunday, whatever days failed or *)
(* raised.                                                                 *)
(***************************************************************************)
WeekdaysOf(first, last) ==
    Ascending({d \in DateOf(first)..DateOf(last) : ~ShouldSkipDate(timedelta(d))})

DailyLoopReturned == rg_pc = "collect" /\ rg_view = "none"

C23_EveryWeekdayAttemptedOnce ==
    DailyLoopReturned =>
        [k \in 1..Len(attempted) |-> DateOf(attempted[k])]
            = WeekdaysOf(range_start, range_end)

(***************************************************************************)
(* C30: _scrape_calendar_table_for_range keeps an event row exactly when   *)
(* its date header is a calendar day of the inclusive window [range_start, *)
(* range_end], whatever the time of day of range_start and range_end: the  *)
(* events of the first and of the last day of the window are kept.         *)
(***************************************************************************)
RangeTableScraped == rg_pc = "collect" /\ rg_view = "table"

C30_WindowDaysKept ==
    RangeTableScraped =>
        {DateOf(range_events[k].DateTime) : k \in 1..Len(range_events)}
            = ShownDays(range_start, range_end)

(***************************************************************************)
(* C21: when SIGINT or SIGTERM arrives while a range scrape is running,    *)
(* the window in progress finishes or fails naturally and no further       *)
(* window is started afterwards.                                           *)
(***************************************************************************)
C21_NoWindowAfterSignal == interrupted # 0 => started_after = {}

(***************************************************************************)
(* C24: the impact conversion maps the hint 'Icon--Ff-Impact-Red' to High, *)
(* 'Icon--Ff-Impact-Ora' to Medium, 'Icon--Ff-Impact-Yel' and              *)
(* 'Icon--Ff-Impact-Gra' to Low, and a record with no impact hint at all   *)
(* to Low, in _convert_css_impact_to_readable and                          *)
(* _extract_impact_from_js_data as well as in clean_impact_levels.         *)
(***************************************************************************)
ImpactRule(hint, level) ==
    /\ hint = TokRed => level = High
    /\ hint = TokOra => level = Medium
    /\ hint \in {TokYel, TokGra} => level = Low
    /\ hint \in {<<>>, NaN} => level = Low

ImpactField(hint) == [f \in {"impact"} |-> StrVal(hint)]

ScraperImpactRule ==
    /\ \A hint \in {TokRed, TokOra, TokYel, TokGra, <<>>} :
          ImpactRule(hint, ConvertCssImpactToReadable(hint))
    /\ \A hint \in {TokRed, TokOra, TokYel, TokGra} :
          ImpactRule(hint, ExtractImpactFromJsData(ImpactField(hint)))
    /\ ExtractImpactFromJsData(<<>>) = Low

C24_ImpactConversionTable ==
    /\ []ScraperImpactRule
    /\ [][cl_pc = "impact" =>
            \A k \in 1..Len(cl_frame) :
                ImpactRule(cl_frame[k].Impact, cl_frame'[k].Impact)]_vars

(***************************************************************************)
(* C25: clean_countries changes Country only on the rows whose Country is  *)
(* 'Unknown': such a row gets the country of a keyword found in its title  *)
(* when one matches, otherwise the country mapped from its currency,       *)
(* otherwise it stays 'Unknown'; a keyword match takes precedence over the *)
(* country of the currency.                                                *)
(***************************************************************************)
Eurozone == <<"E", "u", "r", "o", "z", "o", "n", "e">>

KeywordCountries(title) ==
    {event_country_keywords[i][1] :
        i \in {j \in 1..Len(event_country_keywords) :
                  \E keyword \in event_country_keywords[j][2] :
                      Contains(Upper(title), Upper(keyword))}}

CountryRule(old, new) ==
    IF StrCell(old.Country) # Unknown THEN new.Country = old.Country
    ELSE IF KeywordCountries(StrCell(old.Event)) # {}
    THEN new.Country \in KeywordCountries(StrCell(old.Event))
    ELSE IF HasKey(country_mapping, StrCell(old.Currency))
    THEN new.Country = Lookup(country_mapping, StrCell(old.Currency), Unknown)
    ELSE new.Country = Unknown

C25_CountryResolution ==
    [][cl_pc = "countries" =>
          /\ Len(cl_frame') = Len(cl_frame)
          /\ \A k \in 1..Len(cl_frame) : CountryRule(cl_frame[k], cl_frame'[k])]_vars

C25_Witness ==
    /\ cl_call = "clean_countries"
    /\ cl_pc = "returned"
    /\ \E k \in 1..Len(cl_frame) :
          /\ cl_before[k].Country = Unknown
          /\ cl_before[k].Event = TitleEcbRate
          /\ cl_before[k].Currency = USD
          /\ cl_frame[k].Country = Eurozone

(***************************************************************************)
(* C26: the (country, currency) reconciliation overwrites Currency only on *)
(* rows whose Country and Currency are both resolved: a row whose Country  *)
(* is 'Unknown' or whose Currency is empty or missing is left with its     *)
(* Currency unchanged.                                                     *)
(***************************************************************************)
C26_ReconciliationOnlyWhenResolved ==
    [][cl_pc = "countries" =>
          \A k \in 1..Len(cl_frame) :
              (StrCell(cl_frame'[k].Country) = Unknown
                  \/ cl_frame[k].Currency \in {<<>>, NaN})
                => cl_frame'[k].Currency = cl_frame[k].Currency]_vars

(***************************************************************************)
(* C33: clean_impact_levels and _convert_css_impact_to_readable define the *)
(* same rule: for every input token the cleaner stores the value the       *)
(* extractor's conversion produces for it.                                 *)
(***************************************************************************)
C33_SameImpactRule ==
    [][cl_pc = "impact" =>
          \A k \in 1..Len(cl_frame) :
              cl_frame[k].Impact # NaN =>
                  cl_frame'[k].Impact
                      = ConvertCssImpactToReadable(cl_frame[k].Impact)]_vars

(***************************************************************************)
(* C39: clean_data is idempotent and does not modify its input: the frame  *)
(* returned for the frame returned by a first call equals that frame, and  *)
(* the caller's frame is, when the call returns, as it was before the      *)
(* call.                                                                   *)
(***************************************************************************)
C39_CleanDataIdempotent ==
    /\ \A i \in 2..Len(cl_returned) : cl_returned[i] = cl_returned[1]
    /\ cl_call = "clean_data" => cl_input = cl_before

\* a second call has returned a frame in which the first call had resolved
\* a country from the title and replaced the currency
C39_Witness ==
    /\ Len(cl_returned) = 2
    /\ cl_pc = "returned"
    /\ \E k \in 1..Len(cl_returned[2]) :
          /\ cl_returned[2][k].Country = Eurozone
          /\ cl_returned[2][k].Currency = EUR

(***************************************************************************)
(* C31: for a table row with the standard seven columns _parse_event_row   *)
(* takes Actual, Forecast and Previous from the row's actual, forecast and *)
(* previous columns, for every combination of empty and non-empty value    *)
(* cells: an empty cell yields 'N/A' for its own field and no value is     *)
(* shifted into another field.                                             *)
(***************************************************************************)
OwnValue(cell) == IF cell.text = <<>> THEN NA ELSE cell.text

ParsedValuesRow ==
    /\ ex_pc = "extracted"
    /\ ~page.has_js
    /\ page.rows \in Singletons(ValuesRows)

C31_ValueColumnsKept ==
    ParsedValuesRow =>
        /\ Len(ex_events) = 1
        /\ ex_events[1].Actual = OwnValue(page.rows[1][5])
        /\ ex_events[1].Forecast = OwnValue(page.rows[1][6])
        /\ ex_events[1].Previous = OwnValue(page.rows[1][7])

(***************************************************************************)
(* C32: in _enhance_js_events_with_html_data, whenever a rendered row      *)
(* matches an embedded-state record by name, the record's Impact, Actual,  *)
(* Forecast and Previous are overwritten with the values of the first      *)
(* matching row (Impact always); a record with no matching row keeps all   *)
(* its fields.                                                             *)
(***************************************************************************)
MatchingRows(js_event) ==
    {r \in 1..Len(page.rows) : RowMatches(page.rows[r], js_event)}

EnhancedFrom(js_event, cells) ==
    [js_event EXCEPT !.Impact = ParseImpactLevel(cells[3]),
                     !.Actual = GetCellText(CellAt(cells, 5)),
                     !.Forecast = GetCellText(CellAt(cells, 6)),
                     !.Previous = GetCellText(CellAt(cells, 7))]

C32_EnhancementOverwrites ==
    [][ex_pc = "parsed" =>
          /\ Len(ex_events') = Len(ex_events)
          /\ \A k \in 1..Len(ex_events) :
                LET matching == MatchingRows(ex_events[k])
                IN  ex_events'[k] =
                        IF matching = {} THEN ex_events[k]
                        ELSE EnhancedFrom(
                                 ex_events[k],
                                 page.rows[CHOOSE r \in matching :
                                              \A q \in matching : r <= q])]_vars

(***************************************************************************)
(* C34: _is_driver_responsive never raises: it returns False when no       *)
(* session is held or when the probe fails with any error, sets the        *)
(* session-lost flag only when the error text contains 'invalid session    *)
(* id' or 'session deleted' (in any letter case), and leaves the flag      *)
(* unchanged for every other error and on success.                         *)
(***************************************************************************)
NamesLostSession(e) ==
    \E t \in {TxtInvalidSessionId, TxtSessionDeleted} : Contains(Lower(e), t)

C34_ProbeNeverRaises ==
    /\ pb_pc \in {"idle", "try", "probe", "except", "returned"}
    /\ pb_pc = "returned" =>
          /\ pb_result \in {"True", "False"}
          /\ pb_result = "True" <=> (pb_driver /\ pb_error = NoError)
          /\ driver_session_lost =
                IF pb_driver /\ pb_error # NoError /\ NamesLostSession(pb_error)
                THEN TRUE
                ELSE pb_lost_before
    /\ pb_pc # "returned" => driver_session_lost = pb_lost_before

\* the probe failed with an error that names no lost session while the flag
\* was not set, and False was returned
C34_Witness ==
    /\ pb_pc = "returned"
    /\ pb_driver
    /\ pb_error = MsgNotReachable
    /\ ~pb_lost_before
    /\ pb_result = "False"

(***************************************************************************)
(* C35: when scrape_single_day or scrape_date_range has returned or        *)
(* raised, after any combination of navigation failures, verification      *)
(* waits, session recreations and setup errors, no browser session is left *)
(* open: the scraper's driver is None.                                     *)
(***************************************************************************)
ScrapeLeft == rg_pc = "done" \/ pl_pc \in {"scraped", "returned"}

C35_NoSessionLeftOpen == ScrapeLeft => (driver = 0 /\ OpenSessions = {})

\* scrape_date_range has returned from a run in which a navigation failed
\* and a session was replaced
C35_Witness ==
    /\ pl_mode = "range"
    /\ pl_pc = "scraped"
    /\ nav_failed # {}
    /\ sessions >= 2
    /\ driver = 0

(***************************************************************************)
(* C36: in scrape_date_range every window of the partition is counted      *)
(* exactly once: after each loop iteration successful_ranges +             *)
(* failed_ranges is the number of windows processed so far, at the end of  *)
(* the run it is total_ranges, and an iteration adds one to one counter.   *)
(***************************************************************************)
C36_WindowsCountedOnce ==
    /\ [](rg_pc # "idle" =>
             successful_ranges + failed_ranges =
                 IF rg_pc = "done" THEN Len(ranges) ELSE range_index - 1)
    /\ [][range_index' # range_index =>
             /\ range_index' = range_index + 1
             /\ successful_ranges' + failed_ranges'
                    = successful_ranges + failed_ranges + 1
             /\ successful_ranges' >= successful_ranges
             /\ failed_ranges' >= failed_ranges]_vars

\* a run of two windows has ended; in the first one every navigation failed
C36_Witness ==
    /\ rg_pc = "done"
    /\ Len(ranges) = 2
    /\ 1 \in FailedWindows
    /\ successful_ranges + failed_ranges = 2

(***************************************************************************)
(* C37: export_events / append_events called with an empty batch returns   *)
(* False and leaves the stored file unchanged: no file is created, no      *)
(* existing record is rewritten or removed.                                *)
(***************************************************************************)
C37_EmptyBatchLeavesFile ==
    /\ [](\A mode \in {"w", "a"} :
             ExportEvents(csv_file, <<>>, mode)
                 = [ok |-> FALSE, file |-> csv_file])
    /\ [][(Len(sink_calls') = Len(sink_calls) + 1
             /\ sink_calls'[Len(sink_calls')].events = <<>>) =>
                /\ ~sink_calls'[Len(sink_calls')].ok
                /\ csv_file' = csv_file
                /\ sink_calls'[Len(sink_calls')].before = csv_file]_vars

\* an empty batch was handed over after a batch that had been stored
C37_Witness ==
    /\ Len(sink_calls) = 2
    /\ sink_calls[1].ok
    /\ sink_calls[2].events = <<>>
    /\ ~sink_calls[2].ok
    /\ csv_file.state = "data"
    /\ csv_file.rows # <<>>
    /\ csv_file = sink_calls[2].before

(***************************************************************************)
(* C38: map_events_to_pairs returns one record per input record in the     *)
(* same order, each equal to its input record plus the AffectedPairs       *)
(* field, and leaves the input records and the auto/override tables        *)
(* unchanged; the list returned by get_affected_pairs is a copy, so        *)
(* changing it does not change later results.                              *)
(***************************************************************************)
C38_MappingLeavesInputs ==
    /\ [](mp_pc = "returned" =>
             /\ Len(mapped_events) = Len(mp_events)
             /\ \A k \in 1..Len(mp_events) :
                   /\ DOMAIN mapped_events[k]
                         = DOMAIN mp_events[k] \cup {"AffectedPairs"}
                   /\ \A key \in DOMAIN mp_events[k] :
                         mapped_events[k][key] = mp_events[k][key])
    /\ [][mp_pc = "for" =>
             UNCHANGED <<mp_events, auto_mapping, custom_overrides>>]_vars
    /\ [][mp_got' # mp_got =>
             /\ UNCHANGED <<auto_mapping, custom_overrides>>
             /\ \A c \in {USD, EUR, CAD, <<>>} :
                   GetAffectedPairs(custom_overrides', auto_mapping', c)
                       = GetAffectedPairs(custom_overrides, auto_mapping, c)]_vars

\* two events were mapped after a caller had changed the list returned for
\* USD: the first event got the list as it was returned
C38_Witness ==
    /\ mp_pc = "returned"
    /\ Len(mp_got) = 1
    /\ mp_got[1].currency = USD
    /\ mp_got[1].returned # <<>>
    /\ Len(mp_events) = 2
    /\ "Currency" \in DOMAIN mp_events[1]
    /\ mp_events[1].Currency = USD
    /\ mp_pairs[1] = mp_got[1].returned

====
